---- MODULE Spec2Model ----
(***************************************************************************)
(* Intent classification and entity extraction of the bot's NLPProcessor   *)
(* (src/src/bot/nlp_processor.py).                                         *)
(*                                                                         *)
(* Text encoding.  The source's literals are Cyrillic; the strings below   *)
(* write every character of the source as exactly one ASCII character, so  *)
(* that lengths, substring relations and positions are those of the        *)
(* source text:                                                            *)
(*   a-а b-б v-в g-г d-д e-е j-ж z-з i-и y-й k-к l-л m-м n-н o-о p-п r-р   *)
(*   s-с t-т u-у f-ф h-х c-ц w-ш x-щ q-я   ^-ё  %-ч  |-ы  '-ь  ~-э  +-ю    *)
(*   A..Z are the capitals of a..z (M-М, D-Д, K-К, I-И ...), = is Э,       *)
(*   & and $ are the Latin letters v and r (the source's "vr"),            *)
(*   digits, blank, tab, newline and punctuation stand for themselves.     *)
(***************************************************************************)
EXTENDS Integers, Sequences, FiniteSets, TLC

(***************************************************************************)
(* Characters and Python's str primitives                                  *)
(***************************************************************************)
LowerLetters == "abvgdejziyklmnoprstufhcwxq~"
UpperLetters == "ABVGDEJZIYKLMNOPRSTUFHCWXQ="
CaselessLetters == "^%|'+&$"
Digits == "0123456789"
Whitespace == " \t\n"

CharAt(s, i) == SubSeq(s, i, i)
CharsOf(s) == {CharAt(s, i) : i \in 1..Len(s)}

LowerChars == CharsOf(LowerLetters)
UpperChars == CharsOf(UpperLetters)
AlphaChars == LowerChars \cup UpperChars \cup CharsOf(CaselessLetters)
DigitChars == CharsOf(Digits)
SpaceChars == CharsOf(Whitespace)
\* \w of a Python 3 str pattern: alphanumerics and the underscore
WordChars == AlphaChars \cup DigitChars \cup {"_"}
WordOrSpaceChars == WordChars \cup SpaceChars

\* the case partner of every cased character
ToLower == [c \in UpperChars |-> CharAt(LowerLetters, CHOOSE i \in 1..Len(UpperLetters) : CharAt(UpperLetters, i) = c)]
ToUpper == [c \in LowerChars |-> CharAt(UpperLetters, CHOOSE i \in 1..Len(LowerLetters) : CharAt(LowerLetters, i) = c)]

LowerChar(c) == IF c \in UpperChars THEN ToLower[c] ELSE c
UpperChar(c) == IF c \in LowerChars THEN ToUpper[c] ELSE c

RECURSIVE MapChars(_, _, _)
MapChars(s, i, up) ==
    IF i > Len(s) THEN ""
    ELSE (IF up THEN UpperChar(CharAt(s, i)) ELSE LowerChar(CharAt(s, i))) \o MapChars(s, i + 1, up)

\* str.lower(), str.upper()
Lower(s) == MapChars(s, 1, FALSE)
Upper(s) == MapChars(s, 1, TRUE)
\* str.capitalize(): first character upper-cased, the rest lower-cased
Capitalize(s) == IF s = "" THEN "" ELSE UpperChar(CharAt(s, 1)) \o Lower(SubSeq(s, 2, Len(s)))

\* sub in s  (Python substring containment; the empty string is in every string)
Contains(sub, s) == \E i \in 1..(Len(s) - Len(sub) + 1) : SubSeq(s, i, i + Len(sub) - 1) = sub

\* str.isalpha(): non-empty and every character alphabetic
IsAlpha(s) == s # "" /\ \A i \in 1..Len(s) : CharAt(s, i) \in AlphaChars
\* str.isupper() of one character
IsUpperChar(c) == c \in UpperChars

\* str.replace(' ', '')
RECURSIVE RemoveBlanks(_)
RemoveBlanks(s) ==
    IF s = "" THEN ""
    ELSE (IF CharAt(s, 1) = " " THEN "" ELSE CharAt(s, 1)) \o RemoveBlanks(SubSeq(s, 2, Len(s)))

\* re.sub(r'[^\w\s]', ' ', s)
RECURSIVE StripPunctuation(_)
StripPunctuation(s) ==
    IF s = "" THEN ""
    ELSE (IF CharAt(s, 1) \in WordOrSpaceChars THEN CharAt(s, 1) ELSE " ")
         \o StripPunctuation(SubSeq(s, 2, Len(s)))

\* number of characters of s from position i on that are in cls (inCls) or not in cls (~inCls)
RECURSIVE RunLength(_, _, _, _)
RunLength(s, i, cls, inCls) ==
    IF i > Len(s) \/ ((CharAt(s, i) \in cls) # inCls) THEN 0 ELSE 1 + RunLength(s, i + 1, cls, inCls)
RunLen(s, i, cls) == RunLength(s, i, cls, TRUE)

\* str.split(): the maximal runs of non-whitespace characters, in order
RECURSIVE SplitFrom(_, _)
SplitFrom(s, i) ==
    IF i > Len(s) THEN <<>>
    ELSE IF CharAt(s, i) \in SpaceChars THEN SplitFrom(s, i + 1)
    ELSE LET n == RunLength(s, i, SpaceChars, FALSE)
         IN  <<SubSeq(s, i, i + n - 1)>> \o SplitFrom(s, i + n)
Split(s) == SplitFrom(s, 1)

(***************************************************************************)
(* Static tables of NLPProcessor.__init__                                   *)
(***************************************************************************)
\* self.categories: the keys in insertion order (dict iteration order)
CategoryOrder == <<"teacher", "discipline", "document", "navigation", "event", "sport", "dormitory">>

\* self.categories: category -> set of trigger words
categories ==
    [c \in {CategoryOrder[i] : i \in 1..Len(CategoryOrder)} |->
       CASE c = "teacher" ->
            { "prepodavatel'", "u%itel'", "pedagog", "prepodaet", "vedet", "para", "par|", "urok",
              "uroki", "kto", "takaq", "takoy", "kakie", "predmet|", "pokaji", "rasskaji",
              "informaciq", "spisok", "o prepodavatelqh", "o u%itelqh", "u%at", "prepodavateli",
              "nayti", "kontakt|", "prepod", "ved^t", "u%it", "familiq", "prepoda" }
         [] c = "discipline" ->
            { "predmet", "disciplina", "matematika", "informatika", "programmirovanie", "~konomika",
              "buhu%et", "buhgalteriq", "fizkul'tura", "angliyskiy", "istoriq", "fizika", "pravo",
              "literatura", "russkiy", "algebra", "geometriq", "himiq", "biologiq", "kurs", "lekciq",
              "seminar", "praktika", "laba", "prepodaet", "vedet", "izu%aet", "izu%aem" }
         [] c = "document" ->
            { "spravka", "dokument", "zaqvlenie", "polu%it'", "oformit'", "bumaga", "spravki",
              "dokument|", "bumagi", "zapolnit'", "podat'", "spravku" }
         [] c = "navigation" ->
            { "gde", "nayti", "nahoditsq", "raspolojenie", "auditoriq", "kabinet", "~taj", "korpus",
              "stolovaq", "biblioteka", "bufet", "raspolojena", "auditorii", "nahodqtsq", "poisk",
              "kak proyti", "doroga", "put'", "aktov|y", "zal", "laboratoriq", "medpunkt", "dekanat" }
         [] c = "event" ->
            { "meropriqtie", "sob|tie", "prazdnik", "koncert", "v|stuplenie", "kogda", "kakie",
              "festival'", "vstre%a", "seminar", "konferenciq", "anons", "skoro", "meropriqtiq",
              "afiwa" }
         [] c = "sport" ->
            { "sekciq", "sport", "trenirovka", "zanqtie", "trener", "igra", "kakie", "est'", "sekcii",
              "zanqtiq", "sportivn|e", "sportzal", "fizkul'tura", "futbol", "voleybol", "basketbol",
              "tennis", "fizruk", "sportivn|y", "zanimat'sq" }
         [] c = "dormitory" ->
            { "obxejitie", "obxaga", "komnata", "projivanie", "zaselenie", "komendant", "jit'",
              "poselit'sq", "kvartira", "obxejitiq", "zaselit'sq", "usloviq", "plata", "snqt'" }]

\* self.stop_words
stop_words ==
    { "i", "v", "vo", "ne", "%to", "on", "na", "q", "s", "so", "kak", "a", "to", "vse", "ona",
      "tak", "ego", "no", "da", "t|", "k", "u", "je", "v|", "za", "b|", "po", "tol'ko", "ee",
      "mne", "b|lo", "vot", "ot", "menq", "exe", "net", "o", "iz", "emu", "takaq", "~to", "~ta",
      "gde", "kakaq" }

\* common_disciplines of find_discipline_in_text, in list order
common_disciplines ==
    << "matematika", "informatika", "russkiy qz|k", "literatura", "istoriq", "fizika", "himiq",
       "biologiq", "~konomika", "pravo", "buhgalteriq", "programmirovanie", "angliyskiy qz|k",
       "filosofiq", "psihologiq", "statistika", "kul'tura", "menedjment", "marketing",
       "sociologiq", "politologiq", "~kologiq" >>

(***************************************************************************)
(* Values that are not str.  The reducer is an injected capability and may *)
(* hand back anything; a query may be None.  Two representatives:          *)
(*   NoneValue - hashable, but has no len(), no .lower(), is not iterable  *)
(*   ListValue - unhashable (set membership raises TypeError)              *)
(***************************************************************************)
NoneValue == "<None>"
ListValue == "<list>"
IsStr(v) == v \notin {NoneValue, ListValue}

(***************************************************************************)
(* The morphological reducer (self.morph).  A reducer is a record          *)
(*   lemmas : whether it maps inflected forms to dictionary forms          *)
(*   failOn : the words on which parse() misbehaves                        *)
(*   how    : "raise" | "None" | "list" - what it does on those words      *)
(***************************************************************************)
\* dictionary forms the analyzer gives for the inflected words of the vocabulary
NormalForms ==
    [w \in {"biblioteku", "matematiku", "b|lo", "ivanova", "koncert|", "takaq", "vedet", "prepodaet",
            "pilu", "pila", "kakie"} |->
       CASE w = "biblioteku" -> "biblioteka"
         [] w = "matematiku" -> "matematika"
         [] w = "b|lo"       -> "b|t'"
         [] w = "ivanova"    -> "ivanov"
         [] w = "koncert|"   -> "koncert"
         [] w = "takaq"      -> "takoy"
         [] w = "vedet"      -> "vesti"
         [] w = "prepodaet"  -> "prepodavat'"
         [] w = "pilu"       -> "pila"             \* the saw, accusative
         [] w = "pila"       -> "pit'"             \* read as the past tense of "to drink"
         [] w = "kakie"      -> "kakoy"]

\* self.morph.parse(word)[0].normal_form: [raised, value]
Parse(m, word) ==
    IF word \in m.failOn
    THEN CASE m.how = "raise" -> [raised |-> TRUE,  value |-> NoneValue]
           [] m.how = "None"  -> [raised |-> FALSE, value |-> NoneValue]
           [] m.how = "list"  -> [raised |-> FALSE, value |-> ListValue]
    ELSE [raised |-> FALSE,
          value  |-> IF m.lemmas /\ word \in DOMAIN NormalForms THEN NormalForms[word] ELSE word]

\* normalize_word whose handler returns None instead of the word
normalize_wordReturnsNone(m, word) ==
    LET r == Parse(m, word) IN IF r.raised THEN NoneValue ELSE r.value

\* normalize_word: the normal form, or the word itself when parse raises
normalize_word(m, word) ==
    LET r == Parse(m, word) IN IF r.raised THEN word ELSE r.value

\* [self.normalize_word(word) for word in words]
NormalizeAll(m, words) == [i \in 1..Len(words) |-> normalize_word(m, words[i])]
SeqRange(s) == {s[i] : i \in 1..Len(s)}

\* FilterStopWords that filters nothing
FilterStopWordsKeepAll(normalized_words) == normalized_words

\* FilterStopWords that collects the kept words in reverse order
RECURSIVE FilterStopWordsReversed(_)
FilterStopWordsReversed(normalized_words) ==
    IF normalized_words = <<>> THEN <<>>
    ELSE FilterStopWordsReversed(Tail(normalized_words))
         \o (IF Head(normalized_words) \notin stop_words THEN <<Head(normalized_words)>> ELSE <<>>)

\* [word for word in normalized_words if word not in self.stop_words]
RECURSIVE FilterStopWords(_)
FilterStopWords(normalized_words) ==
    IF normalized_words = <<>> THEN <<>>
    ELSE (IF Head(normalized_words) \notin stop_words THEN <<Head(normalized_words)>> ELSE <<>>)
         \o FilterStopWords(Tail(normalized_words))

\* extract_keywords without its handler: the unhashable value reaches the caller
extract_keywordsLeaksFault(m, text) ==
    IF ~IsStr(text) THEN <<>>
    ELSE LET normalized_words == NormalizeAll(m, Split(StripPunctuation(Lower(text))))
         IN  IF ListValue \in SeqRange(normalized_words)
             THEN normalized_words
             ELSE FilterStopWords(normalized_words)

\* extract_keywords(text): the list of keywords; [] on any exception
extract_keywords(m, text) ==
    IF ~IsStr(text) THEN <<>>                       \* text.lower() raises, caught
    ELSE LET cleaned == StripPunctuation(Lower(text))
             words == Split(cleaned)
             normalized_words == NormalizeAll(m, words)
         IN  IF ListValue \in SeqRange(normalized_words)
             THEN <<>>                              \* unhashable in "not in stop_words", caught
             ELSE FilterStopWords(normalized_words)

(***************************************************************************)
(* Roster index (self.teacher_surnames): a dict, kept as the sequence of   *)
(* its items in insertion order                                            *)
(***************************************************************************)
DictHasKey(d, k) == \E i \in 1..Len(d) : d[i].name_base = k
\* d[k] = v: a new key is appended, an existing key keeps its position
DictPut(d, k, v) ==
    IF DictHasKey(d, k)
    THEN [i \in 1..Len(d) |-> IF d[i].name_base = k THEN [name_base |-> k, full_name |-> v] ELSE d[i]]
    ELSE Append(d, [name_base |-> k, full_name |-> v])

\* minimum number of fields of a roster record (len(teacher) < 4 is skipped)
MinTeacherFields == 4

\* str(v) and {v} in an f-string: a NULL column reads as the Latin word None
Str(v) == IF v = NoneValue THEN "None" ELSE v

\* the loop body of set_teacher_surnames for one item of teachers_list; the
\* handler of lines 78-79 is not reachable with str and None fields
AddTeacher(d, teacher) ==
    IF ~teacher.tuple THEN d                                   \* not a list or tuple
    ELSE IF Len(teacher.fields) < MinTeacherFields THEN d      \* insufficient fields
    ELSE LET surname == Lower(Str(teacher.fields[2]))
             full_name == Str(teacher.fields[2]) \o " " \o Str(teacher.fields[3]) \o " " \o Str(teacher.fields[4])
         IN  DictPut(d, surname, full_name)

RECURSIVE AddTeachers(_, _)
AddTeachers(d, teachers_list) ==
    IF teachers_list = <<>> THEN d
    ELSE AddTeachers(AddTeacher(d, Head(teachers_list)), Tail(teachers_list))

\* values of the parameter teachers_list: a list of items, None, or a number
TeachersList(items) == [kind |-> "list", items |-> items]
NoTeachersList == [kind |-> "None", items |-> <<>>]
NotAList == [kind |-> "int", items |-> <<>>]
Lists(rosters) == {TeachersList(items) : items \in rosters}

\* the outcome of a call: whether it raised, and self.teacher_surnames after it
Built(index) == [raised |-> FALSE, index |-> index]
BuildRaised == [raised |-> TRUE, index |-> <<>>]

\* lines 56-81, the body of the try block: line 56 has emptied the index
BuildBody(teachers_list) ==
    IF teachers_list.kind = "None" THEN Built(<<>>)            \* not teachers_list
    ELSE IF teachers_list.kind = "int" THEN BuildRaised        \* len() of a number
    ELSE Built(AddTeachers(<<>>, teachers_list.items))

\* set_teacher_surnames with a handler that lets the exception through
set_teacher_surnamesReraises(teachers_list) == BuildBody(teachers_list)

\* set_teacher_surnames(teachers_list): lines 82-84 empty the index on any exception
set_teacher_surnames(teachers_list) ==
    LET body == BuildBody(teachers_list)
    IN  IF body.raised THEN Built(<<>>) ELSE body

(***************************************************************************)
(* categorize_query: the decision chain.  A step yields NoMatch (the chain *)
(* goes on), Raise (an exception leaves the step) or Return(category,      *)
(* entities).                                                              *)
(***************************************************************************)
NoMatch == [kind |-> "none", category |-> "", entities |-> <<>>]
Raise == [kind |-> "raise", category |-> "", entities |-> <<>>]
Return(c, e) == [kind |-> "return", category |-> c, entities |-> e]

\* teacher_patterns: the literal part of each template; each ends in the group ([\w]+)
teacher_patterns ==
    << "kto takaq ", "kto takoy ", "prepodavatel' ", "o prepodavatele ", "gde nayti ", "kontakt| " >>

\* re.search(literal + r"([\w]+)", text): <<group 1>> of the leftmost match, <<>> without one
PatternGroup(literal, text) ==
    LET n == Len(literal)
        starts == {i \in 1..(Len(text) - n) :
                     /\ SubSeq(text, i, i + n - 1) = literal
                     /\ CharAt(text, i + n) \in WordChars}
    IN  IF starts = {} THEN <<>>
        ELSE LET i == CHOOSE k \in starts : \A j \in starts : k <= j
             IN  <<SubSeq(text, i + n, i + n + RunLen(text, i + n, WordChars) - 1)>>

\* the loop over teacher_patterns: every template that matches appends its group
RECURSIVE AppendPatternGroups(_, _, _)
AppendPatternGroups(keywords, text_lower, k) ==
    IF k > Len(teacher_patterns) THEN keywords
    ELSE AppendPatternGroups(keywords \o PatternGroup(teacher_patterns[k], text_lower), text_lower, k + 1)

\* RosterStep with the surname inserted last preferred among those a token contains
RECURSIVE RosterStepLastInserted(_, _)
RosterStepLastInserted(keywords, surnames) ==
    IF keywords = <<>> \/ surnames = <<>> THEN NoMatch
    ELSE LET word == Head(keywords) IN
         IF ~IsStr(word) THEN Raise
         ELSE LET hits == {i \in 1..Len(surnames) : Contains(surnames[i].name_base, Lower(word))}
              IN  IF hits # {}
                  THEN Return("teacher", <<surnames[CHOOSE i \in hits : \A j \in hits : i >= j].full_name>>)
                  ELSE RosterStepLastInserted(Tail(keywords), surnames)

\* RosterStep with the surname compared for equality instead of containment
RECURSIVE RosterStepEquality(_, _)
RosterStepEquality(keywords, surnames) ==
    IF keywords = <<>> \/ surnames = <<>> THEN NoMatch
    ELSE LET word == Head(keywords) IN
         IF ~IsStr(word) THEN Raise
         ELSE LET hits == {i \in 1..Len(surnames) : surnames[i].name_base = Lower(word)}
              IN  IF hits # {}
                  THEN Return("teacher", <<surnames[CHOOSE i \in hits : \A j \in hits : i <= j].full_name>>)
                  ELSE RosterStepEquality(Tail(keywords), surnames)

\* lines 188-193: the first keyword that contains an indexed surname
RECURSIVE RosterStep(_, _)
RosterStep(keywords, surnames) ==
    IF keywords = <<>> \/ surnames = <<>> THEN NoMatch
    ELSE LET word == Head(keywords) IN
         IF ~IsStr(word) THEN Raise                           \* word.lower() on a non-str
         ELSE LET hits == {i \in 1..Len(surnames) : Contains(surnames[i].name_base, Lower(word))}
              IN  IF hits # {}
                  THEN Return("teacher", <<surnames[CHOOSE i \in hits : \A j \in hits : i <= j].full_name>>)
                  ELSE RosterStep(Tail(keywords), surnames)

\* the locative markers of line 199
HasLocativeMarker(text_lower) ==
    \E mk \in {"gde", "kak nayti", "kak proyti", "mestopolojenie", "raspolojenie"} : Contains(mk, text_lower)

\* the residual location list of lines 219-220, in list order
other_locations ==
    << "dekanat", "u%ebnaq %ast'", "studsovet", "buhgalteriq", "aktov|y zal", "sportzal", "medpunkt" >>

\* NavigationStep with the canteen group tested before the library group
NavigationStepCanteenFirst(text_lower, keywords) ==
    IF ~HasLocativeMarker(text_lower) THEN NoMatch
    ELSE IF \E w \in {"stolov", "bufet", "poest'", "eda"} : Contains(w, text_lower)
         THEN Return("navigation", <<"stolovaq">>)
    ELSE IF Contains("bibliotek", text_lower) THEN Return("navigation", <<"biblioteka">>)
    ELSE IF \E w \in {"&$", "laborator"} : Contains(w, text_lower)
         THEN Return("navigation", <<"laboratoriq">>)
    ELSE LET hits == {i \in 1..Len(other_locations) : Contains(other_locations[i], text_lower)}
         IN  IF hits # {}
             THEN Return("navigation", <<other_locations[CHOOSE i \in hits : \A j \in hits : i <= j]>>)
             ELSE Return("navigation", keywords)

\* lines 198-226: explicit navigation phrasing
NavigationStep(text_lower, keywords) ==
    IF ~HasLocativeMarker(text_lower) THEN NoMatch
    ELSE IF Contains("bibliotek", text_lower) THEN Return("navigation", <<"biblioteka">>)
    ELSE IF \E w \in {"stolov", "bufet", "poest'", "eda"} : Contains(w, text_lower)
         THEN Return("navigation", <<"stolovaq">>)
    ELSE IF \E w \in {"&$", "laborator"} : Contains(w, text_lower)
         THEN Return("navigation", <<"laboratoriq">>)
    ELSE LET hits == {i \in 1..Len(other_locations) : Contains(other_locations[i], text_lower)}
         IN  IF hits # {}
             THEN Return("navigation", <<other_locations[CHOOSE i \in hits : \A j \in hits : i <= j]>>)
             ELSE Return("navigation", keywords)

\* the words excluded from being a name (lines 234 and 243)
common_words == {"gde", "kak", "%to", "kogda", "po%emu", "kto", "nahodit'sq", "raspolojen"}

\* len(word) > 3
MinNameLen == 3

\* lines 231-237 and 240-245: the first keyword that looks like a name
RECURSIVE NameScan(_, _)
NameScan(keywords, needUpper) ==
    IF keywords = <<>> THEN NoMatch
    ELSE LET word == Head(keywords) IN
         IF ~IsStr(word) THEN Raise                           \* len(word) on a non-str
         ELSE IF /\ Len(word) > MinNameLen
                 /\ IsAlpha(word)
                 /\ needUpper => IsUpperChar(CharAt(word, 1))
                 /\ ~\E c \in common_words : Contains(c, Lower(word))
              THEN Return("teacher", <<word>>)
              ELSE NameScan(Tail(keywords), needUpper)

\* TeacherNounStep that skips only the keywords equal to an excluded word
TeacherNounStepExcludesEqual(text_lower, keywords) ==
    IF \E w \in {"prepodavatel'", "u%itel'", "pedagog"} : Contains(w, text_lower)
    THEN LET hits == {k \in 1..Len(keywords) :
                        Len(keywords[k]) > MinNameLen /\ IsAlpha(keywords[k]) /\ Lower(keywords[k]) \notin common_words}
         IN  IF hits = {} THEN NoMatch
             ELSE Return("teacher", <<keywords[CHOOSE k \in hits : \A j \in hits : k <= j]>>)
    ELSE NoMatch

\* lines 228-237: a teacher role noun in the text
TeacherNounStep(text_lower, keywords) ==
    IF \E w \in {"prepodavatel'", "u%itel'", "pedagog"} : Contains(w, text_lower)
    THEN NameScan(keywords, FALSE)
    ELSE NoMatch

\* lines 239-245: a capitalized keyword
CapitalizedStep(keywords) == NameScan(keywords, TRUE)

(***************************************************************************)
(* find_discipline_in_text: the set of values the call can return.  The    *)
(* teaching-context branch iterates a Python set, whose order is not       *)
(* fixed, so a word that contains several discipline keywords can give any *)
(* of them.  The empty set stands for the return value None.               *)
(***************************************************************************)
\* HasTeachingMarker that knows only the marker "prepodaet"
HasTeachingMarkerOnlyPrepodaet(text) == Contains("prepodaet", Lower(text))

HasTeachingMarker(text) == \E mk \in {"vedet", "prepodaet", "ved^t"} : Contains(mk, Lower(text))

\* TeachingScan with the containment reversed: the keyword inside the discipline entry
RECURSIVE TeachingScanWordInEntry(_)
TeachingScanWordInEntry(words) ==
    IF words = <<>> THEN [kind |-> "none", labels |-> {}]
    ELSE LET word == Head(words) IN
         IF ~IsStr(word) THEN [kind |-> "raise", labels |-> {}]
         ELSE LET found == {d \in categories["discipline"] : Contains(word, d)}
              IN  IF found # {}
                  THEN [kind |-> "return", labels |-> {Capitalize(d) : d \in found}]
                  ELSE TeachingScanWordInEntry(Tail(words))

\* lines 117-121: [kind, labels] for the scan of the keywords
RECURSIVE TeachingScan(_)
TeachingScan(words) ==
    IF words = <<>> THEN [kind |-> "none", labels |-> {}]
    ELSE LET word == Head(words) IN
         IF ~IsStr(word) THEN [kind |-> "raise", labels |-> {}]   \* "discipline in word" on a non-str
         ELSE LET found == {d \in categories["discipline"] : Contains(d, word)}
              IN  IF found # {}
                  THEN [kind |-> "return", labels |-> {Capitalize(d) : d \in found}]
                  ELSE TeachingScan(Tail(words))

IsMdkAt(text, i) ==
    /\ i + 2 <= Len(text)
    /\ Lower(SubSeq(text, i, i + 2)) = "mdk"
    /\ LET j == i + 3 + RunLen(text, i + 3, SpaceChars)
       IN  /\ j + 4 <= Len(text)
           /\ CharAt(text, j) \in DigitChars
           /\ CharAt(text, j + 1) \in DigitChars
           /\ CharAt(text, j + 2) = "."
           /\ CharAt(text, j + 3) \in DigitChars
           /\ CharAt(text, j + 4) \in DigitChars

\* re.compile(r'мдк\s*\d{2}\.\d{2}', re.IGNORECASE).search(text): <<match.group()>> or <<>>
MdkSearch(text) ==
    LET starts == {i \in 1..Len(text) : IsMdkAt(text, i)}
    IN  IF starts = {} THEN <<>>
        ELSE LET i == CHOOSE k \in starts : \A j \in starts : k <= j
                 j == i + 3 + RunLen(text, i + 3, SpaceChars)
             IN  <<SubSeq(text, i, j + 4)>>

\* match.group().upper().replace(' ', '')
FormatMdk(matched) == RemoveBlanks(Upper(matched))

\* len(discipline) > 5, len(word) > 5
MinPartialLen == 5

\* lines 148-151: the scan of the keywords for one discipline
RECURSIVE PartialScan(_, _)
PartialScan(discipline, words) ==
    IF words = <<>> THEN "none"
    ELSE LET word == Head(words) IN
         IF ~IsStr(word) THEN "raise"                            \* len(word) on a non-str
         ELSE IF Len(word) > MinPartialLen /\ (Contains(discipline, word) \/ Contains(word, discipline))
              THEN "return"
              ELSE PartialScan(discipline, Tail(words))

\* lines 146-151: partial containment, outer loop over the discipline list
PartialDiscipline(words) ==
    LET Scan(i) == IF Len(common_disciplines[i]) > MinPartialLen
                   THEN PartialScan(common_disciplines[i], words) ELSE "none"
        hits == {i \in 1..Len(common_disciplines) : Scan(i) # "none"}
    IN  IF hits = {} THEN [kind |-> "none", labels |-> {}]
        ELSE LET i == CHOOSE k \in hits : \A j \in hits : k <= j
             IN  [kind |-> Scan(i),
                  labels |-> IF Scan(i) = "return" THEN {Capitalize(common_disciplines[i])} ELSE {}]

find_discipline_in_text(m, text) ==
    LET teaching == IF HasTeachingMarker(text)
                    THEN TeachingScan(extract_keywords(m, Lower(text)))
                    ELSE [kind |-> "none", labels |-> {}]
        mdk == MdkSearch(text)
        full == {i \in 1..Len(common_disciplines) : Contains(common_disciplines[i], Lower(text))}
        partial == PartialDiscipline(extract_keywords(m, Lower(text)))
    IN  IF teaching.kind = "return" THEN teaching.labels
        ELSE IF teaching.kind = "raise" THEN {}                  \* except: return None
        ELSE IF mdk # <<>> THEN {FormatMdk(mdk[1])}
        ELSE IF full # {} THEN {Capitalize(common_disciplines[CHOOSE i \in full : \A j \in full : i <= j])}
        ELSE IF partial.kind = "return" THEN partial.labels
        ELSE {}

\* lines 253-260: explicit multi-word category phrases
PhraseStep(text_lower, keywords) ==
    IF \E w \in {"prepodavateli", "o prepodavatelqh", "spisok prepodavateley"} : Contains(w, text_lower)
    THEN Return("teacher", keywords)
    ELSE IF \E w \in {"stolovaq", "bufet", "poest'"} : Contains(w, text_lower)
    THEN Return("navigation", <<"stolovaq">> \o keywords)
    ELSE NoMatch

\* ExactStep with the first keyword that is in some set deciding, by its first category
ExactStepTokenOrder(keywords) ==
    LET hits == {k \in 1..Len(keywords) : \E i \in 1..Len(CategoryOrder) : keywords[k] \in categories[CategoryOrder[i]]}
    IN  IF hits = {} THEN NoMatch
        ELSE LET k == CHOOSE h \in hits : \A j \in hits : h <= j
                 of == {i \in 1..Len(CategoryOrder) : keywords[k] \in categories[CategoryOrder[i]]}
             IN  Return(CategoryOrder[CHOOSE i \in of : \A j \in of : i <= j], keywords)

\* lines 262-266: exact keyword-set intersection, categories in dict order
ExactStep(keywords) ==
    LET hits == {i \in 1..Len(CategoryOrder) :
                   \E k \in 1..Len(keywords) : keywords[k] \in categories[CategoryOrder[i]]}
    IN  IF hits = {} THEN NoMatch
        ELSE Return(CategoryOrder[CHOOSE i \in hits : \A j \in hits : i <= j], keywords)

\* len(keyword) > 3, len(category_word) > 3
MinFuzzyLen == 3

\* FuzzyMatch without the length conditions
FuzzyMatchAnyLength(keyword, category_word) ==
    Contains(keyword, category_word) \/ Contains(category_word, keyword)

\* the condition of line 272
FuzzyMatch(keyword, category_word) ==
    \/ Len(keyword) > MinFuzzyLen /\ Contains(keyword, category_word)
    \/ Len(category_word) > MinFuzzyLen /\ Contains(category_word, keyword)

\* lines 268-274: fuzzy keyword-set intersection, categories in dict order
FuzzyStep(keywords) ==
    LET hits == {i \in 1..Len(CategoryOrder) :
                   \E k \in 1..Len(keywords) :
                      \E category_word \in categories[CategoryOrder[i]] :
                         FuzzyMatch(keywords[k], category_word)}
    IN  IF hits = {} THEN NoMatch
        ELSE Return(CategoryOrder[CHOOSE i \in hits : \A j \in hits : i <= j], keywords)

\* lines 195-277, the steps after the roster lookup: the set of their possible outcomes
ChainAfterRoster(m, text_lower, keywords) ==
    LET nav == NavigationStep(text_lower, keywords)
        noun == TeacherNounStep(text_lower, keywords)
        cap == CapitalizedStep(keywords)
        labels == find_discipline_in_text(m, text_lower)
        phrase == PhraseStep(text_lower, keywords)
        exact == ExactStep(keywords)
        fuzzy == FuzzyStep(keywords)
    IN  IF nav.kind # "none" THEN {nav}
        ELSE IF noun.kind # "none" THEN {noun}
        ELSE IF cap.kind # "none" THEN {cap}
        ELSE IF labels # {} THEN {Return("discipline", <<l>>) : l \in labels}
        ELSE IF phrase.kind # "none" THEN {phrase}
        ELSE IF exact.kind # "none" THEN {exact}
        ELSE IF fuzzy.kind # "none" THEN {fuzzy}
        ELSE {Return("unknown", keywords)}

\* the body of the try block of categorize_query: the set of its possible outcomes
CategorizeBody(m, surnames, text) ==
    IF ~IsStr(text) THEN {Raise}                               \* text.lower() on a non-str
    ELSE LET text_lower == Lower(text)
             keywords == AppendPatternGroups(extract_keywords(m, text_lower), text_lower, 1)
             roster == RosterStep(keywords, surnames)
         IN  IF roster.kind # "none" THEN {roster}
             ELSE ChainAfterRoster(m, text_lower, keywords)

\* categorize_query without its handler: the exception leaves the call
CatchAllReraises(outcome) ==
    [raised |-> outcome.kind = "raise", category |-> outcome.category, entities |-> outcome.entities]

\* the except clause of categorize_query (lines 278-280)
CatchAll(outcome) ==
    IF outcome.kind = "raise"
    THEN [raised |-> FALSE, category |-> "unknown", entities |-> <<>>]
    ELSE [raised |-> FALSE, category |-> outcome.category, entities |-> outcome.entities]

\* categorize_query(text): the set of (category, entities) results it can return
categorize_query(m, surnames, text) == {CatchAll(o) : o \in CategorizeBody(m, surnames, text)}

(***************************************************************************)
(* Inputs: query texts, reducers, roster snapshots                         *)
(***************************************************************************)
\* longest query, in vocabulary items
MaxWords == 3

RECURSIVE JoinWords(_)
JoinWords(ws) == IF ws = <<>> THEN "" ELSE IF Len(ws) = 1 THEN ws[1] ELSE ws[1] \o " " \o JoinWords(Tail(ws))

\* the texts of at most MaxWords items of a vocabulary, joined by single blanks
TextsOver(vocabulary) == {JoinWords(ws) : ws \in UNION {[1..k -> vocabulary] : k \in 0..MaxWords}}

Reducer(lemmas, failOn, how) == [lemmas |-> lemmas, failOn |-> failOn, how |-> how]

\* rows of the teachers table as db.get_teachers() returns them: (id, surname, given name, patronymic)
TeacherRow(fields) == [tuple |-> TRUE, fields |-> fields]
Ivanov == TeacherRow(<<"1", "Ivanov", "Ivan", "Ivanovi%">>)
Ivanova == TeacherRow(<<"2", "Ivanova", "Anna", "Petrovna">>)

(***************************************************************************)
(* process_query: the answer to a query.  The literals of the answers are  *)
(* kept by their opening words; db_manager is given by what a call of one  *)
(* of its accessors does (a call of process_query uses at most one).       *)
(***************************************************************************)
\* no classification has been run
NoResult == [raised |-> FALSE, category |-> "", entities |-> <<>>]

StoreRows(rows) == [how |-> "rows", rows |-> rows]
StoreNone == [how |-> "None", rows |-> <<>>]
StoreRaises == [how |-> "raise", rows |-> <<>>]

AskForDetails == "Pojaluysta, sformuliruyte vopros podrobnee."
NotUnderstood == "Izvinite, q ne smog ponqt' vaw vopros."
GenericError == "Proizowla owibka pri obrabotke zaprosa."
TeacherStub == "Poisk prepodavateley %erez tekstov|e zapros| vremenno nedostupen"
DisciplineStub == "Poisk po disciplinam %erez tekstov|e zapros| vremenno nedostupen"
SportUnavailable == "informaciq o sportivn|h sekciqh vremenno nedostupna"
DocumentUnavailable == "informaciq o dokumentah vremenno nedostupna"
NavigationUnavailable == "informaciq o raspolojenii pomexeniy vremenno nedostupna"
EventUnavailable == "net zaplanirovann|h meropriqtiy"
DormitoryUnavailable == "informaciq ob obxejitiqh vremenno nedostupna"

\* the outcome of a call: a returned value, or an exception leaving the function;
\* calls lists the accessors of db_manager the call used
Answered(value, calls) == [raised |-> FALSE, value |-> value, calls |-> calls]
Faulted(calls) == [raised |-> TRUE, value |-> NoneValue, calls |-> calls]

\* row[i] if len(row) > i else default (i counted from 0), as it prints in an f-string
FieldOr(row, i, default) == IF Len(row.fields) > i THEN Str(row.fields[i + 1]) ELSE default

\* the lines of one row of the sections, documents, events and dormitories tables
SectionLines(row) ==
    FieldOr(row, 1, "Nazvanie sekcii ne ukazano") \o "\n" \o FieldOr(row, 2, "Ne ukazan") \o "\n"
       \o FieldOr(row, 3, "Ne ukazano") \o "\n" \o FieldOr(row, 4, "Ne ukazano") \o "\n\n"
DocumentLines(row) ==
    FieldOr(row, 1, "Ne ukazano") \o "\n" \o FieldOr(row, 2, "Opisanie otsutstvuet") \o "\n"
       \o (IF Len(row.fields) > 3 /\ row.fields[4] \notin {"", NoneValue}
           THEN row.fields[4] \o "\n" ELSE "") \o "\n"
EventLines(row) ==
    FieldOr(row, 2, "Nazvanie ne ukazano") \o "\n" \o FieldOr(row, 1, "Data ne ukazana") \o "\n"
       \o FieldOr(row, 3, "Mesto ne ukazano") \o "\n\n"
DormitoryLines(row) ==
    FieldOr(row, 1, "Nomer ne ukazan") \o "\n" \o FieldOr(row, 3, "Ne ukazan") \o "\n"
       \o FieldOr(row, 2, "Ne ukazan") \o "\n" \o FieldOr(row, 4, "Ne ukazan") \o "\n\n"

\* the loops "for row in rows: response += ...": len(row) raises on an item that is no sequence
RECURSIVE FormatRows(_, _, _, _)
FormatRows(response, rows, table, calls) ==
    IF rows = <<>> THEN Answered(response, calls)
    ELSE IF ~Head(rows).tuple THEN Faulted(calls)
    ELSE LET row == Head(rows)
             lines == CASE table = "sections" -> SectionLines(row)
                        [] table = "documents" -> DocumentLines(row)
                        [] table = "events" -> EventLines(row)
                        [] table = "dormitories" -> DormitoryLines(row)
         IN  FormatRows(response \o lines, Tail(rows), table, calls)

\* header, rows and closing lines of a list answer
WithFooter(outcome, footer) ==
    IF outcome.raised THEN outcome ELSE Answered(outcome.value \o footer, outcome.calls)

\* _process_sport_query, _process_document_query, _process_event_query and
\* _process_dormitory_query: one accessor call, the unavailable message on no rows
ListQuery(db_manager, accessor, table, unavailable, header, footer) ==
    IF db_manager.how = "raise" THEN Faulted(<<accessor>>)
    ELSE IF db_manager.how = "None" \/ db_manager.rows = <<>> THEN Answered(unavailable, <<accessor>>)
    ELSE WithFooter(FormatRows(header, db_manager.rows, table, <<accessor>>), footer)

process_sport_query(db_manager) ==
    ListQuery(db_manager, "get_sections", "sections", SportUnavailable,
              "Sportivn|e sekcii v kolledje\n\n", "Dlq zapisi v sekci+ obratites' k treneru")
process_document_query(db_manager) ==
    ListQuery(db_manager, "get_documents", "documents", DocumentUnavailable,
              "Dokument| i spravki v kolledje\n\n", "Kak polu%it' dokument|:\n")
process_event_query(db_manager) ==
    ListQuery(db_manager, "get_events", "events", EventUnavailable,
              "Blijaywie meropriqtiq kolledja\n\n", "Kak prinqt' u%astie:\n")
process_dormitory_query(db_manager) ==
    ListQuery(db_manager, "get_dormitories", "dormitories", DormitoryUnavailable,
              "Obxejitiq Permskogo finansovo-~konomi%eskogo kolledja\n\n", "Dlq polu%eniq dopolnitel'noy informacii obraxaytes' v u%ebnu+ %ast'")

\* the if/elif chain of _process_navigation_query: the places in the order they are tested
navigation_places ==
    << [words |-> {"biblioteka", "biblioteki", "knigi"}, answer |-> "Biblioteka kolledja"],
       [words |-> {"&$", "laboratoriq", "virtual'naq real'nost'"}, answer |-> "&$-laboratoriq"],
       [words |-> {"u%ebnaq", "dekanat", "u%ebn|y"}, answer |-> "U%ebnaq %ast' kolledja"],
       [words |-> {"stolovaq", "bufet", "poest'", "eda"}, answer |-> "Stolovaq i bufet kolledja"],
       [words |-> {"studen%eskiy", "sovet", "studsovet"}, answer |-> "Studen%eskiy sovet kolledja"],
       [words |-> {"buhgalteriq", "oplata", "finans|"}, answer |-> "Buhgalteriq kolledja"],
       [words |-> {"aktov|y", "zal"}, answer |-> "Aktov|y zal kolledja"],
       [words |-> {"sportzal", "sportivn|y", "fizkul'tura"}, answer |-> "Sportivn|y zal kolledja"],
       [words |-> {"medpunkt", "medicinskiy", "vra%"}, answer |-> "Medicinskiy punkt kolledja"] >>
NavigationOverview == "Navigaciq po kolledju"

\* _process_navigation_query
process_navigation_query(db_manager, keywords) ==
    IF db_manager.how = "raise" THEN Faulted(<<"get_navigation">>)
    ELSE IF db_manager.how = "None" \/ db_manager.rows = <<>>
         THEN Answered(NavigationUnavailable, <<"get_navigation">>)
    ELSE IF \E i \in 1..Len(keywords) : ~IsStr(keywords[i])
         THEN Faulted(<<"get_navigation">>)                    \* " ".join on a non-str
    ELSE LET keywords_string == Lower(JoinWords(keywords))
             hits == {i \in 1..Len(navigation_places) :
                         \E w \in navigation_places[i].words : Contains(w, keywords_string)}
         IN  IF hits # {}
             THEN Answered(navigation_places[CHOOSE i \in hits : \A j \in hits : i <= j].answer,
                           <<"get_navigation">>)
             ELSE Answered(NavigationOverview, <<"get_navigation">>)

\* lines 292-310: the answer to a classified query
Dispatch(category, keywords, db_manager) ==
    IF keywords = <<>> THEN Answered(AskForDetails, <<>>)
    ELSE CASE category = "teacher" -> Answered(TeacherStub, <<>>)
           [] category = "discipline" -> Answered(DisciplineStub, <<>>)
           [] category = "sport" -> process_sport_query(db_manager)
           [] category = "document" -> process_document_query(db_manager)
           [] category = "navigation" -> process_navigation_query(db_manager, keywords)
           [] category = "event" -> process_event_query(db_manager)
           [] category = "dormitory" -> process_dormitory_query(db_manager)
           [] OTHER -> Answered(NotUnderstood, <<>>)

\* ProcessBody without the test of line 286
ProcessBodyNoCommandCheck(analyzer, surnames, query, db_manager) ==
    IF ~IsStr(query) THEN {[outcome |-> Faulted(<<>>), classified |-> NoResult]}
    ELSE {[outcome |-> IF r.raised THEN Faulted(<<>>) ELSE Dispatch(r.category, r.entities, db_manager),
           classified |-> r] : r \in categorize_query(analyzer, surnames, query)}

\* lines 285-310, the body of the try block: the possible outcomes, each with the
\* classification it ran (NoResult when none was run)
ProcessBody(analyzer, surnames, query, db_manager) ==
    IF ~IsStr(query) THEN {[outcome |-> Faulted(<<>>), classified |-> NoResult]}     \* startswith on a non-str
    ELSE IF Len(query) > 0 /\ CharAt(query, 1) = "/"
         THEN {[outcome |-> Answered(NoneValue, <<>>), classified |-> NoResult]}
    ELSE {[outcome |-> IF r.raised THEN Faulted(<<>>) ELSE Dispatch(r.category, r.entities, db_manager),
           classified |-> r] : r \in categorize_query(analyzer, surnames, query)}

\* the handler of lines 312-314 with the exception let through
CatchQueryErrorReraises(run) == run

\* lines 312-314: any exception gives the generic error text
CatchQueryError(run) ==
    IF run.outcome.raised
    THEN [run EXCEPT !.outcome = Answered(GenericError, run.outcome.calls)]
    ELSE run

\* process_query(text, db_manager)
process_query(analyzer, surnames, query, db_manager) ==
    {CatchQueryError(run) : run \in ProcessBody(analyzer, surnames, query, db_manager)}

(***************************************************************************)
(* split_long_message (src/utils): an answer cut into the parts that are   *)
(* sent as separate messages                                               *)
(***************************************************************************)
\* message.split('\n'): the lines of a message, "" included
RECURSIVE SplitLines(_)
SplitLines(message) ==
    LET n == RunLength(message, 1, {"\n"}, FALSE)
    IN  IF n = Len(message) THEN <<message>>
        ELSE <<SubSeq(message, 1, n)>> \o SplitLines(SubSeq(message, n + 2, Len(message)))

\* the loop of split_long_message with a line that does not fit cut at max_length
RECURSIVE SplitLoopCutsLines(_, _, _, _)
SplitLoopCutsLines(lines, parts, current_part, max_length) ==
    IF lines = <<>> THEN IF current_part # "" THEN Append(parts, current_part) ELSE parts
    ELSE LET line == Head(lines) IN
         IF Len(current_part) + Len(line) + 1 > max_length
         THEN IF Len(line) > max_length
              THEN SplitLoopCutsLines(<<SubSeq(line, max_length + 1, Len(line))>> \o Tail(lines),
                                      Append(parts, current_part), SubSeq(line, 1, max_length), max_length)
              ELSE SplitLoopCutsLines(Tail(lines), Append(parts, current_part), line, max_length)
         ELSE SplitLoopCutsLines(Tail(lines), parts,
                                 IF current_part # "" THEN current_part \o "\n" \o line ELSE line, max_length)

\* lines 150-161: the loop over the lines, and the last part
RECURSIVE SplitLoop(_, _, _, _)
SplitLoop(lines, parts, current_part, max_length) ==
    IF lines = <<>> THEN IF current_part # "" THEN Append(parts, current_part) ELSE parts
    ELSE LET line == Head(lines) IN
         IF Len(current_part) + Len(line) + 1 > max_length
         THEN SplitLoop(Tail(lines), Append(parts, current_part), line, max_length)
         ELSE SplitLoop(Tail(lines), parts,
                        IF current_part # "" THEN current_part \o "\n" \o line ELSE line, max_length)

\* split_long_message(message, max_length)
split_long_message(message, max_length) ==
    IF Len(message) <= max_length THEN <<message>>
    ELSE SplitLoop(SplitLines(message), <<>>, "", max_length)

VARIABLES pc, morph, teacher_surnames, build, text, keywords, rerun, result, db, reply, calls, split,
          users, query_cache, clock, flag, tables, served
\* the state of the DatabaseManager and of what it reads: the query cache, the clock,
\* the file cache_invalidated, the rows of the database, and the last call served
cacheVars == <<query_cache, clock, flag, tables, served>>
vars == <<pc, morph, teacher_surnames, build, text, keywords, rerun, result, db, reply, calls, split,
          users, cacheVars>>

\* split: the arguments and the result of the call of split_long_message
NoSplit == [message |-> "", max_length |-> 0, parts |-> <<>>]

\* calls: the classification each worker thread of the bot is running (TeleBot
\* starts NumThreads workers; message handlers run on them concurrently)
NumThreads == 2
Threads == 1..NumThreads
IdleCall == [pc |-> "idle", text |-> "", keywords |-> <<>>, result |-> NoResult]

\* build: the argument and the outcome of the call of set_teacher_surnames
NotBuilt == [teachers_list |-> NoTeachersList, raised |-> FALSE]

\* reply: the outcome of the call of process_query; db: the db_manager it was given
NoReply == Answered("", <<>>)

\* users: for every user (a private chat), the entry of self.user_states ("" for no
\* entry), the number of next-step handlers registered for the chat, and how the
\* user's last text message was handled
Users == {"u1", "u2"}
NoState == ""
NotHandled == [text |-> "", state |-> NoState, by |-> <<>>, nlp |-> FALSE]
NewUser == [state |-> NoState, next_step |-> 0, handled |-> NotHandled]

\* the file cache_invalidated: absent, or what int(f.read().strip()) gives
NoFlag == [kind |-> "absent", time |-> 0]
FlagAt(t) == [kind |-> "time", time |-> t]
UnreadableFlag == [kind |-> "unreadable", time |-> 0]

\* the rows a SELECT finds in the database, before and after a change of the data
FirstRows == "rows-1"
ChangedRows == "rows-2"

\* the cache after DatabaseManager.__init__: init_database lists the tables through
\* execute_query, which caches the list
CacheAfterInit ==
    LET query == "SELECT name FROM sqlite_master WHERE type='table';"
    IN  {[query |-> query, result |-> <<query, FirstRows>>, timestamp |-> 0]}

\* served: the call of the DatabaseManager that has just returned
NotServed == [call |-> "", query |-> "", params |-> <<>>, use_cache |-> FALSE, failed |-> FALSE,
              from_cache |-> FALSE, result |-> <<>>, before |-> {}, flag |-> NoFlag, time |-> 0]

\* the analyzer when "import pymorphy3" failed: the name pymorphy3 is unbound
Unavailable == [lemmas |-> FALSE, failOn |-> {}, how |-> "unavailable"]

\* NLPProcessor.__init__ with the analyzer morph; line 18 raises NameError
\* when the import of line 2 failed, and no processor exists then
Construct(reducers) ==
    /\ morph \in reducers
    /\ pc = IF morph = Unavailable THEN "construct_raised" ELSE "constructed"
    /\ teacher_surnames = <<>>
    /\ build = NotBuilt
    /\ db = StoreNone
    /\ reply = NoReply
    /\ calls = [t \in Threads |-> IdleCall]
    /\ split = NoSplit
    /\ text = ""
    /\ keywords = <<>>
    /\ rerun = <<>>
    /\ result = NoResult
    /\ users = [u \in Users |-> NewUser]
    /\ query_cache = CacheAfterInit
    /\ clock = 0
    /\ flag = NoFlag
    /\ tables = FirstRows
    /\ served = NotServed

\* Bot.__init__ hands the rows of the teachers table to set_teacher_surnames
SetTeacherSurnames(rosters) ==
    /\ pc = "constructed"
    /\ \E teachers_list \in rosters :
          LET outcome == set_teacher_surnames(teachers_list)
          IN  /\ teacher_surnames' = outcome.index
              /\ build' = [teachers_list |-> teachers_list, raised |-> outcome.raised]
    /\ pc' = "serving"
    /\ UNCHANGED <<morph, text, keywords, result, db, reply, calls, split, rerun, users, cacheVars>>

\* one call of extract_keywords
ExtractKeywords(texts) ==
    /\ pc = "serving"
    /\ \E t \in texts :
          /\ text' = t
          /\ keywords' = extract_keywords(morph, t)
    /\ pc' = "extracted"
    /\ UNCHANGED <<morph, teacher_surnames, build, result, db, reply, calls, split, rerun, users, cacheVars>>

\* extract_keywords called on the blank-joined keywords of the call before
ExtractAgain ==
    /\ pc = "extracted"
    /\ \A i \in 1..Len(keywords) : IsStr(keywords[i])           \* " ".join needs str items
    /\ rerun' = extract_keywords(morph, JoinWords(keywords))
    /\ pc' = "re_extracted"
    /\ UNCHANGED <<morph, teacher_surnames, build, text, keywords, result, db, reply, calls, split, users, cacheVars>>

\* one call of categorize_query
CategorizeQuery(texts) ==
    /\ pc = "serving"
    /\ \E t \in texts :
          /\ text' = t
          /\ result' \in categorize_query(morph, teacher_surnames, t)
    /\ pc' = "categorized"
    /\ UNCHANGED <<morph, teacher_surnames, build, keywords, db, reply, calls, split, rerun, users, cacheVars>>

\* one call of process_query
ProcessQuery(texts, stores) ==
    /\ pc = "serving"
    /\ \E t \in texts, db_manager \in stores :
          /\ text' = t
          /\ db' = db_manager
          /\ \E run \in process_query(morph, teacher_surnames, t, db_manager) :
                /\ result' = run.classified
                /\ reply' = run.outcome
    /\ pc' = "answered"
    /\ UNCHANGED <<morph, teacher_surnames, build, keywords, calls, split, rerun, users, cacheVars>>

\* one call of split_long_message on a text to send
SplitLongMessage(messages, lengths) ==
    /\ pc = "serving"
    /\ \E message \in messages, max_length \in lengths :
          split' = [message |-> message, max_length |-> max_length,
                    parts |-> split_long_message(message, max_length)]
    /\ pc' = "split"
    /\ UNCHANGED <<morph, teacher_surnames, build, text, keywords, result, db, reply, calls, rerun, users, cacheVars>>

\* categorize_query on a worker thread, in the steps between which another thread
\* can run: the call starts (lines 160-161)
ThreadReceive(texts) ==
    /\ pc = "serving"
    /\ \E t \in Threads, query \in texts :
          /\ calls[t].pc = "idle"
          /\ calls' = [calls EXCEPT ![t] = [IdleCall EXCEPT !.pc = "tokens", !.text = query]]
    /\ UNCHANGED <<pc, morph, teacher_surnames, build, text, keywords, result, db, reply, split, rerun, users, cacheVars>>

\* lines 162-186: the local list keywords is built (reads self.stop_words, self.morph)
ThreadTokenize ==
    /\ pc = "serving"
    /\ \E t \in Threads :
          /\ calls[t].pc = "tokens"
          /\ LET text_lower == Lower(calls[t].text)
                 tokens == AppendPatternGroups(extract_keywords(morph, text_lower), text_lower, 1)
             IN  calls' = [calls EXCEPT ![t].pc = "lookup", ![t].keywords = tokens]
    /\ UNCHANGED <<pc, morph, teacher_surnames, build, text, keywords, result, db, reply, split, rerun, users, cacheVars>>

\* self.teacher_surnames after the roster lookup with a write that keeps every looked-up token
IndexAfterLookupKeepsTokens(surnames, tokens) ==
    IF tokens = <<>> THEN surnames ELSE DictPut(surnames, Lower(tokens[1]), tokens[1])

\* self.teacher_surnames after the roster lookup of lines 189-193: the loop only reads it
IndexAfterLookup(surnames, tokens) == surnames

\* lines 189-193: the roster lookup (reads self.teacher_surnames)
ThreadLookup ==
    /\ pc = "serving"
    /\ \E t \in Threads :
          /\ calls[t].pc = "lookup"
          /\ LET roster == RosterStep(calls[t].keywords, teacher_surnames)
             IN  calls' = IF roster.kind # "none"
                          THEN [calls EXCEPT ![t].pc = "done", ![t].result = CatchAll(roster)]
                          ELSE [calls EXCEPT ![t].pc = "chain"]
          /\ teacher_surnames' = IndexAfterLookup(teacher_surnames, calls[t].keywords)
    /\ UNCHANGED <<pc, morph, build, text, keywords, result, db, reply, split, rerun, users, cacheVars>>

\* lines 195-280: the rest of the chain (reads self.categories)
ThreadChain ==
    /\ pc = "serving"
    /\ \E t \in Threads :
          /\ calls[t].pc = "chain"
          /\ \E outcome \in ChainAfterRoster(morph, Lower(calls[t].text), calls[t].keywords) :
                calls' = [calls EXCEPT ![t].pc = "done", ![t].result = CatchAll(outcome)]
    /\ UNCHANGED <<pc, morph, teacher_surnames, build, text, keywords, result, db, reply, split, rerun, users, cacheVars>>

(***************************************************************************)
(* The handlers of CollegeBot.  The library runs the next-step handlers     *)
(* registered for a chat on the next message of that chat, removes them,   *)
(* and does not give that message to the message handlers; a message no    *)
(* next-step handler takes goes to the first message handler that accepts  *)
(* it, the command handlers being registered before handle_text_message.   *)
(***************************************************************************)
WaitingForTeacherName == "waiting_for_teacher_name"

\* the longest text sanitize_input lets through
MaxInputLen == 2000

RECURSIVE RemoveControlChars(_)
RemoveControlChars(s) ==
    IF s = "" THEN ""
    ELSE (IF CharAt(s, 1) \in {"\t", "\n"} THEN "" ELSE CharAt(s, 1)) \o RemoveControlChars(SubSeq(s, 2, Len(s)))

\* sanitize_input (src/utils)
sanitize_input(message_text) ==
    IF message_text = NoneValue \/ message_text = "" THEN ""
    ELSE LET sanitized == RemoveControlChars(message_text)
         IN  IF Len(sanitized) > MaxInputLen THEN SubSeq(sanitized, 1, MaxInputLen) ELSE sanitized

\* the commands that have a handler of their own (setup_handlers)
commands == {"/start", "/help", "/menu", "/terms", "/license"}
IsCommandMessage(message_text) ==
    \E c \in commands :
       /\ Len(message_text) >= Len(c)
       /\ SubSeq(message_text, 1, Len(c)) = c
       /\ Len(message_text) > Len(c) => CharAt(message_text, Len(c) + 1) \in {" ", "@"}

\* handle_teacher_search: the state is set, the prompt is shown, the next-step handler
\* is registered; shown is FALSE when edit_message_text raises, which leaves the
\* function before the registration
handle_teacher_search(user, shown) ==
    IF shown
    THEN [user EXCEPT !.state = WaitingForTeacherName, !.next_step = @ + 1]
    ELSE [user EXCEPT !.state = WaitingForTeacherName]

\* handle_button: 'back_to_menu' and 'teachers' delete the user's state,
\* 'teacher_search' starts the search mode, the other buttons leave the state alone
handle_button(user, callback_data, shown) ==
    CASE callback_data \in {"back_to_menu", "teachers"} -> [user EXCEPT !.state = NoState]
      [] callback_data = "teacher_search" -> handle_teacher_search(user, shown)
      [] OTHER -> user

\* most next-step handlers registered for one chat at a time
MaxPending == 2

\* one press of a button by one user
HandleButton(ids, buttons) ==
    /\ pc = "serving"
    /\ \E u \in ids, callback_data \in buttons, shown \in BOOLEAN :
          /\ callback_data = "teacher_search" => users[u].next_step < MaxPending
          /\ callback_data # "teacher_search" => shown
          /\ users' = [users EXCEPT ![u] = handle_button(users[u], callback_data, shown)]
    /\ UNCHANGED <<pc, morph, teacher_surnames, build, text, keywords, rerun, result, db, reply, calls, split,
                   cacheVars>>

\* the handlers the library runs for a text message of a user
HandlersFor(user, message_text) ==
    IF user.next_step > 0 THEN [k \in 1..user.next_step |-> "process_teacher_search_query"]
    ELSE IF IsCommandMessage(message_text) THEN <<"command">>
    ELSE <<"handle_text_message">>

\* one text message of one user: process_teacher_search_query deletes the user's
\* state and searches the teachers by the text; handle_text_message returns at once
\* in the search mode and else answers by process_query(text.lower(), self.db)
TextMessage(ids, texts, stores) ==
    /\ pc = "serving"
    /\ \E u \in ids, message_text \in texts, db_manager \in stores :
          LET by == HandlersFor(users[u], message_text)
              searched == by[1] = "process_teacher_search_query"
              nlp == by = <<"handle_text_message">> /\ users[u].state # WaitingForTeacherName
          IN  /\ users' = [users EXCEPT ![u] =
                             [state |-> IF searched THEN NoState ELSE @.state,
                              next_step |-> 0,
                              handled |-> [text |-> message_text, state |-> @.state, by |-> by, nlp |-> nlp]]]
              /\ text' = message_text
              /\ db' = db_manager
              /\ IF nlp
                 THEN \E run \in process_query(morph, teacher_surnames, Lower(sanitize_input(message_text)), db_manager) :
                         /\ result' = run.classified
                         /\ reply' = run.outcome
                 ELSE /\ result' = NoResult
                      /\ reply' = NoReply
    /\ UNCHANGED <<pc, morph, teacher_surnames, build, keywords, rerun, calls, split, cacheVars>>

(***************************************************************************)
(* DatabaseManager.execute_query and clear_cache.  The query cache is the  *)
(* set of its entries, one for a key at most; SQL text is written as it    *)
(* stands, its letters being among those Upper maps.                       *)
(***************************************************************************)
\* self.cache_timeout, in seconds
cache_timeout == 300
\* the age in seconds below which the file cache_invalidated counts
InvalidationWindow == 60

\* str.strip()
RECURSIVE Strip(_)
Strip(s) ==
    IF s # "" /\ CharAt(s, 1) \in SpaceChars THEN Strip(SubSeq(s, 2, Len(s)))
    ELSE IF s # "" /\ CharAt(s, Len(s)) \in SpaceChars THEN Strip(SubSeq(s, 1, Len(s) - 1))
    ELSE s
\* str.startswith(prefix)
StartsWith(s, prefix) == Len(s) >= Len(prefix) /\ SubSeq(s, 1, Len(prefix)) = prefix

\* cursor.fetchall() after cursor.execute(query): the rows a SELECT finds in the data
\* as they are now, nothing for another statement
Fetched(query, rows) == IF StartsWith(Upper(Strip(query)), "SELECT") THEN <<query, rows>> ELSE <<>>

CacheEntry(cache, key) == CHOOSE e \in cache : e.query = key
\* self._query_cache[cache_key] = (result, time.time())
Store(cache, key, rows, now) ==
    {e \in cache : e.query # key} \cup {[query |-> key, result |-> rows, timestamp |-> now]}

\* lines 97-106: the flag file exists, holds a number, and the number is less than 60
\* seconds old; a file that cannot be read as a number is logged and does not count
cache_invalidated(flag_file, now) ==
    flag_file.kind = "time" /\ now - flag_file.time < InvalidationWindow

\* execute_query that does not look at the flag file
execute_queryIgnoresFlag(cache, query, params, use_cache, flag_file, now, rows, fails) ==
    LET cacheable == use_cache /\ StartsWith(Upper(Strip(query)), "SELECT") /\ params = <<>>
        hit == /\ cacheable
               /\ \E e \in cache : e.query = query
               /\ now - CacheEntry(cache, query).timestamp < cache_timeout
    IN  IF hit
        THEN [result |-> CacheEntry(cache, query).result, cache |-> cache, from_cache |-> TRUE, failed |-> FALSE]
        ELSE IF fails
        THEN [result |-> <<>>, cache |-> cache, from_cache |-> FALSE, failed |-> TRUE]
        ELSE [result |-> Fetched(query, rows),
              cache |-> IF cacheable THEN Store(cache, query, Fetched(query, rows), now) ELSE cache,
              from_cache |-> FALSE, failed |-> FALSE]

\* execute_query(query, params, use_cache) at the time now, with the cache, the flag
\* file and the data as they are; fails: the connection or the statement raises
execute_query(cache, query, params, use_cache, flag_file, now, rows, fails) ==
    LET cacheable == use_cache /\ StartsWith(Upper(Strip(query)), "SELECT") /\ params = <<>>
        hit == /\ cacheable
               /\ ~cache_invalidated(flag_file, now)
               /\ \E e \in cache : e.query = query
               /\ now - CacheEntry(cache, query).timestamp < cache_timeout
    IN  IF hit
        THEN [result |-> CacheEntry(cache, query).result, cache |-> cache, from_cache |-> TRUE, failed |-> FALSE]
        ELSE IF fails
        THEN [result |-> <<>>, cache |-> cache, from_cache |-> FALSE, failed |-> TRUE]
        ELSE [result |-> Fetched(query, rows),
              cache |-> IF cacheable THEN Store(cache, query, Fetched(query, rows), now) ELSE cache,
              from_cache |-> FALSE, failed |-> FALSE]

\* clear_cache()
clear_cache(cache) == {}

\* time passes
Tick(instants) ==
    /\ \E t \in instants : t > clock /\ clock' = t
    /\ UNCHANGED <<pc, morph, teacher_surnames, build, text, keywords, rerun, result, db, reply, calls, split,
                   users, query_cache, flag, tables>>
    /\ served' = NotServed

\* another process writes the file cache_invalidated with the time of writing, leaves
\* something in it that is no number, or removes it
TouchFlag ==
    /\ \E f \in {NoFlag, UnreadableFlag, FlagAt(clock)} : f # flag /\ flag' = f
    /\ UNCHANGED <<pc, morph, teacher_surnames, build, text, keywords, rerun, result, db, reply, calls, split,
                   users, query_cache, clock, tables>>
    /\ served' = NotServed

\* the data of the tables change
UpdateDatabase ==
    /\ tables = FirstRows
    /\ tables' = ChangedRows
    /\ UNCHANGED <<pc, morph, teacher_surnames, build, text, keywords, rerun, result, db, reply, calls, split,
                   users, query_cache, clock, flag>>
    /\ served' = NotServed

\* one call of execute_query
ExecuteQuery(queries, parameters) ==
    /\ \E query \in queries, params \in parameters, use_cache \in BOOLEAN, fails \in BOOLEAN :
          LET run == execute_query(query_cache, query, params, use_cache, flag, clock, tables, fails)
          IN  /\ query_cache' = run.cache
              /\ served' = [call |-> "execute_query", query |-> query, params |-> params, use_cache |-> use_cache,
                            failed |-> run.failed, from_cache |-> run.from_cache, result |-> run.result,
                            before |-> query_cache, flag |-> flag, time |-> clock]
    /\ UNCHANGED <<pc, morph, teacher_surnames, build, text, keywords, rerun, result, db, reply, calls, split,
                   users, clock, flag, tables>>

\* one call of clear_cache
ClearCache ==
    /\ query_cache' = clear_cache(query_cache)
    /\ served' = [NotServed EXCEPT !.call = "clear_cache", !.before = query_cache, !.flag = flag, !.time = clock]
    /\ UNCHANGED <<pc, morph, teacher_surnames, build, text, keywords, rerun, result, db, reply, calls, split,
                   users, clock, flag, tables>>

(***************************************************************************)
(* Specifications.  Every one starts from a constructed processor, builds  *)
(* the roster index once and then serves one call; they differ in the      *)
(* texts, reducers and roster snapshots the calls are drawn from.          *)
(***************************************************************************)
Identity == Reducer(FALSE, {}, "raise")
Lemmatizer == Reducer(TRUE, {}, "raise")

\* navigation phrasing against roster surnames
VocabNav == {"gde", "kak nayti", "biblioteku", "stolovaq", "laboratoriq", "sportzal", "Ivanova"}
TextsNav == TextsOver(VocabNav)
ReducersNav == {Identity, Lemmatizer}
RostersNav == Lists({<<>>, <<Ivanov>>, <<Ivanova, Ivanov>>, <<Ivanov, Ivanova>>})

InitNav == Construct(ReducersNav)
NextNav ==
    \/ SetTeacherSurnames(RostersNav)
    \/ ExtractKeywords(TextsNav)
    \/ CategorizeQuery(TextsNav)
SpecNav == InitNav /\ [][NextNav]_vars

\* stop words, punctuation and reducer failures
VocabStop == {"i", "b|lo", "gde", "takaq", "?", "biblioteku", "Ivanova,"}
TextsStop == TextsOver(VocabStop)
ReducersStop ==
    {Identity, Lemmatizer,
     Reducer(TRUE, {"ivanova"}, "raise"), Reducer(TRUE, {"biblioteku", "b|lo"}, "raise"),
     Reducer(TRUE, {"biblioteku"}, "None"), Reducer(TRUE, {"ivanova"}, "list")}
RostersStop == Lists({<<>>, <<Ivanov>>})

InitStop == Construct(ReducersStop)
NextStop ==
    \/ SetTeacherSurnames(RostersStop)
    \/ ExtractKeywords(TextsStop)
    \/ CategorizeQuery(TextsStop)
SpecStop == InitStop /\ [][NextStop]_vars

\* teaching context, discipline codes and the steps that precede them
VocabDisc == {"vedet", "matematiku", "Ivanova", "gde", "prepodavatel'", "mdk 01.01", "MdK01.01", "mdk\t01.01"}
TextsDisc == TextsOver(VocabDisc)
ReducersDisc == {Identity, Lemmatizer}
RostersDisc == Lists({<<>>, <<Ivanov>>})

InitDisc == Construct(ReducersDisc)
NextDisc ==
    \/ SetTeacherSurnames(RostersDisc)
    \/ ExtractKeywords(TextsDisc)
    \/ CategorizeQuery(TextsDisc)
SpecDisc == InitDisc /\ [][NextDisc]_vars

\* keyword tables: exact and fuzzy intersection
VocabFuzzy == {"koncert|", "futbolist", "zale", "kur", "kurs|", "sport", "i"}
TextsFuzzy == TextsOver(VocabFuzzy)
ReducersFuzzy == {Identity, Lemmatizer}
RostersFuzzy == Lists({<<>>, <<Ivanov>>})

InitFuzzy == Construct(ReducersFuzzy)
NextFuzzy ==
    \/ SetTeacherSurnames(RostersFuzzy)
    \/ ExtractKeywords(TextsFuzzy)
    \/ CategorizeQuery(TextsFuzzy)
SpecFuzzy == InitFuzzy /\ [][NextFuzzy]_vars

\* ill-behaved reducers and a query that is not a str
VocabFault == {"gde", "biblioteku", "Ivanova", "prepodavatel'", "vedet", "koncert|"}
TextsFault == TextsOver(VocabFault) \cup {NoneValue}
ReducersFault ==
    {Identity, Lemmatizer,
     Reducer(TRUE, {"biblioteku"}, "raise"),
     Reducer(TRUE, {"gde", "biblioteku", "ivanova", "prepodavatel'", "vedet", "koncert|"}, "raise"),
     Reducer(TRUE, {"biblioteku"}, "None"), Reducer(TRUE, {"ivanova"}, "None"),
     Reducer(TRUE, {"biblioteku"}, "list"), Reducer(TRUE, {"ivanova"}, "list")}
RostersFault == Lists({<<>>, <<Ivanov>>})

InitFault == Construct(ReducersFault)
NextFault ==
    \/ SetTeacherSurnames(RostersFault)
    \/ ExtractKeywords(TextsFault)
    \/ CategorizeQuery(TextsFault)
SpecFault == InitFault /\ [][NextFault]_vars

\* the analyzer library present or absent at import time
VocabAbsent == {"gde", "biblioteku", "Ivanova"}
TextsAbsent == TextsOver(VocabAbsent)
ReducersAbsent == {Unavailable, Identity, Lemmatizer}
RostersAbsent == Lists({<<>>, <<Ivanov>>})

InitAbsent == Construct(ReducersAbsent)
NextAbsent ==
    \/ SetTeacherSurnames(RostersAbsent)
    \/ ExtractKeywords(TextsAbsent)
    \/ CategorizeQuery(TextsAbsent)
SpecAbsent == InitAbsent /\ [][NextAbsent]_vars

\* roster snapshots with malformed items, empty and padded columns, and values of
\* teachers_list that are no list
MaxTeachers == 2
ShortRow == TeacherRow(<<"3", "Ivanov", "Ivan">>)
NotARow == [tuple |-> FALSE, fields |-> <<>>]
Sidorov == TeacherRow(<<"4", "Sidorov", "Petr", "">>)
PaddedRow == TeacherRow(<<"5", "Petrov ", " Petr", NoneValue>>)
RosterItems == {Ivanov, Ivanova, ShortRow, NotARow, Sidorov, PaddedRow}
RostersRoster ==
    Lists(UNION {[1..k -> RosterItems] : k \in 0..MaxTeachers}) \cup {NoTeachersList, NotAList}
VocabRoster == {"Ivanova", "Sidorovu"}
TextsRoster == TextsOver(VocabRoster)
ReducersRoster == {Identity, Lemmatizer}

InitRoster == Construct(ReducersRoster)
NextRoster ==
    \/ SetTeacherSurnames(RostersRoster)
    \/ ExtractKeywords(TextsRoster)
    \/ CategorizeQuery(TextsRoster)
SpecRoster == InitRoster /\ [][NextRoster]_vars

\* answers: commands, every answered category, and the behaviours of the data store
VocabAnswer == {"/start", "gde", "sportzal", "spravku", "koncert", "obxejitie", "privet", "Ivanova"}
TextsAnswer == TextsOver(VocabAnswer) \cup {NoneValue}
ReducersAnswer == {Identity}
RostersAnswer == Lists({<<Ivanov>>})
GoodRow == TeacherRow(<<"1", "futbol", "Petrov", "zal", "pn 18:00">>)
StoresAnswer ==
    {StoreRows(<<>>), StoreNone, StoreRaises, StoreRows(<<GoodRow>>),
     StoreRows(<<TeacherRow(<<"1">>)>>), StoreRows(<<GoodRow, NotARow>>)}

InitAnswer == Construct(ReducersAnswer)
NextAnswer ==
    \/ SetTeacherSurnames(RostersAnswer)
    \/ ExtractKeywords(TextsAnswer)
    \/ CategorizeQuery(TextsAnswer)
    \/ ProcessQuery(TextsAnswer, StoresAnswer)
SpecAnswer == InitAnswer /\ [][NextAnswer]_vars

\* two worker threads classifying at the same time
VocabThreads == {"Ivanova", "gde sportzal"}
TextsThreads == TextsOver(VocabThreads)
ReducersThreads == {Identity}
RostersThreads == Lists({<<>>, <<Ivanov>>})

InitThreads == Construct(ReducersThreads)
NextThreads ==
    \/ SetTeacherSurnames(RostersThreads)
    \/ ThreadReceive(TextsThreads)
    \/ ThreadTokenize
    \/ ThreadLookup
    \/ ThreadChain
SpecThreads == InitThreads /\ [][NextThreads]_vars

\* texts to send: every string of at most MaxMessageLen letters and line breaks
MaxMessageLen == 6
MaxChunkLen == 3
RECURSIVE StringsOver(_, _)
StringsOver(chars, n) ==
    IF n = 0 THEN {""} ELSE {""} \cup {c \o str : c \in chars, str \in StringsOver(chars, n - 1)}
MessagesSplit == StringsOver({"a", "\n"}, MaxMessageLen)
RostersSplit == Lists({<<>>})

InitSplit == Construct({Identity})
NextSplit ==
    \/ SetTeacherSurnames(RostersSplit)
    \/ SplitLongMessage(MessagesSplit, 1..MaxChunkLen)
SpecSplit == InitSplit /\ [][NextSplit]_vars

\* keywords extracted from extracted keywords
VocabAgain == {"pilu", "takaq", "b|lo", "gde", "Ivanova,", "i"}
TextsAgain == TextsOver(VocabAgain)
ReducersAgain == {Identity, Lemmatizer, Reducer(TRUE, {"pila", "b|lo"}, "raise")}
RostersAgain == Lists({<<>>})

InitAgain == Construct(ReducersAgain)
NextAgain ==
    \/ SetTeacherSurnames(RostersAgain)
    \/ ExtractKeywords(TextsAgain)
    \/ ExtractAgain
    \/ CategorizeQuery(TextsAgain)
SpecAgain == InitAgain /\ [][NextAgain]_vars

\* messages with capitalized words, as the message handler receives them
VocabCapital == {"Petrov", "petrov", "Anna", "Kto", "gde", "prepodavatel'", "Ivanova"}
TextsCapital == VocabCapital \cup {w \o " " \o v : w, v \in VocabCapital}
ReducersCapital == {Identity, Lemmatizer}
RostersCapital == Lists({<<>>, <<Ivanov>>})

InitCapital == Construct(ReducersCapital)
NextCapital ==
    \/ SetTeacherSurnames(RostersCapital)
    \/ TextMessage({"u1"}, TextsCapital, {StoreRows(<<GoodRow>>)})
SpecCapital == InitCapital /\ [][NextCapital]_vars

\* role nouns next to words that hold an excluded word
VocabNoun == {"prepodavatel'", "u%itel'", "kaktusov", "kakoy", "gde", "dom", "Ivanova"}
TextsNoun == TextsOver(VocabNoun)
ReducersNoun == {Identity, Lemmatizer}
RostersNoun == Lists({<<>>, <<Ivanov>>})

InitNoun == Construct(ReducersNoun)
NextNoun ==
    \/ SetTeacherSurnames(RostersNoun)
    \/ ExtractKeywords(TextsNoun)
    \/ CategorizeQuery(TextsNoun)
SpecNoun == InitNoun /\ [][NextNoun]_vars

\* texts that several teacher templates match
VocabTemplates == {"gde nayti", "kontakt|", "petrova", "kto takoy", "prepodavatel'", "Ivanova"}
TextsTemplates == TextsOver(VocabTemplates)
ReducersTemplates == {Identity, Lemmatizer}
RostersTemplates == Lists({<<>>, <<Ivanova>>})

InitTemplates == Construct(ReducersTemplates)
NextTemplates ==
    \/ SetTeacherSurnames(RostersTemplates)
    \/ ExtractKeywords(TextsTemplates)
    \/ CategorizeQuery(TextsTemplates)
SpecTemplates == InitTemplates /\ [][NextTemplates]_vars

\* keywords that belong to several keyword sets, next to fuzzy matches
VocabExact == {"kakie", "seminar", "nayti", "koncert", "kurs|", "sport", "privet"}
TextsExact == TextsOver(VocabExact)
ReducersExact == {Identity, Lemmatizer}
RostersExact == Lists({<<>>, <<Ivanov>>})

InitExact == Construct(ReducersExact)
NextExact ==
    \/ SetTeacherSurnames(RostersExact)
    \/ ExtractKeywords(TextsExact)
    \/ CategorizeQuery(TextsExact)
SpecExact == InitExact /\ [][NextExact]_vars

\* teaching markers next to words that contain, or are contained in, a discipline keyword
VocabDirection == {"vedet", "ved^t", "kurs|", "matem", "matematiku", "pravo", "Ivanova"}
TextsDirection == TextsOver(VocabDirection)
ReducersDirection == {Identity, Lemmatizer}
RostersDirection == Lists({<<>>, <<Ivanov>>})

InitDirection == Construct(ReducersDirection)
NextDirection ==
    \/ SetTeacherSurnames(RostersDirection)
    \/ ExtractKeywords(TextsDirection)
    \/ CategorizeQuery(TextsDirection)
SpecDirection == InitDirection /\ [][NextDirection]_vars

\* questions about the places the navigation step knows, with the navigation table
\* filled or empty
Places ==
    {"biblioteka", "stolovaq", "laboratoriq", "dekanat", "u%ebnaq %ast'", "studsovet", "buhgalteriq",
     "aktov|y zal", "sportzal", "medpunkt"}
TextsPlaces == {"gde " \o p : p \in Places} \cup {p \o " gde " \o q : p, q \in Places}
StoresPlaces == {StoreRows(<<GoodRow>>), StoreRows(<<>>)}

InitPlaces == Construct({Identity})
NextPlaces ==
    \/ SetTeacherSurnames(Lists({<<>>}))
    \/ ProcessQuery(TextsPlaces, StoresPlaces)
SpecPlaces == InitPlaces /\ [][NextPlaces]_vars

\* button presses and text messages of two users in any order
ButtonsChat == {"teacher_search", "back_to_menu", "teachers", "schedule"}
TextsChat == {"Ivanova", "gde stolovaq", "/start"}

InitChat == Construct({Identity})
NextChat ==
    \/ SetTeacherSurnames(Lists({<<>>}))
    \/ HandleButton(Users, ButtonsChat)
    \/ TextMessage(Users, TextsChat, {StoreRows(<<GoodRow>>)})
SpecChat == InitChat /\ [][NextChat]_vars

\* calls of the DatabaseManager while time passes, the data change and the flag file
\* comes and goes; the instants put an entry or a flag just inside and just outside
\* its time limit
Instants == {0, 1, 60, 300}
SelectNews == " select title from news"
DeleteNews == "DELETE FROM news"
QueriesCache == {SelectNews, DeleteNews}
ParametersCache == {<<>>, <<"Ivanov">>}

InitCache == Construct({Identity})
NextCache ==
    \/ Tick(Instants)
    \/ TouchFlag
    \/ UpdateDatabase
    \/ ExecuteQuery(QueriesCache, ParametersCache)
    \/ ClearCache
SpecCache == InitCache /\ [][NextCache]_vars

(***************************************************************************)
(* Claims                                                                  *)
(***************************************************************************)
Categorized == pc = "categorized"
Extracted == pc = "extracted"

\* the token list of the categorized query: the keywords of the lowercased text
\* followed by the groups the teacher templates captured
QueryTokens == AppendPatternGroups(extract_keywords(morph, Lower(text)), Lower(text), 1)

\* some token of the query contains the i-th indexed surname
SurnameInToken(i) ==
    \E k \in 1..Len(QueryTokens) :
       IsStr(QueryTokens[k]) /\ Contains(teacher_surnames[i].name_base, Lower(QueryTokens[k]))
SomeSurnameInToken == \E i \in 1..Len(teacher_surnames) : SurnameInToken(i)

\* C2: a query with a locative marker and a token that contains an indexed surname is
\* answered (teacher, [full name of such a surname]), never with a navigation result,
\* also when the text names a known location.
C2_RosterBeforeNavigation ==
    (Categorized /\ HasLocativeMarker(Lower(text)) /\ SomeSurnameInToken)
       => /\ result.category = "teacher"
          /\ result.category # "navigation"
          /\ \E i \in 1..Len(teacher_surnames) :
                SurnameInToken(i) /\ result.entities = <<teacher_surnames[i].full_name>>

\* C2 witness: "where is the library" phrasing together with a roster surname
C2_Witness ==
    /\ Categorized
    /\ HasLocativeMarker(Lower(text))
    /\ Contains("bibliotek", Lower(text))
    /\ SomeSurnameInToken
    /\ result = [raised |-> FALSE, category |-> "teacher", entities |-> <<"Ivanov Ivan Ivanovi%">>]

\* the tag the named-location groups give a lowercased text: the first group, in the
\* order library, canteen/buffet/food, VR-lab/laboratory, residual list, that matches
InLibraryGroup(t) == Contains("bibliotek", t)
InCanteenGroup(t) == Contains("stolov", t) \/ Contains("bufet", t) \/ Contains("poest'", t) \/ Contains("eda", t)
InLabGroup(t) == Contains("&$", t) \/ Contains("laborator", t)
ResidualTags == <<"dekanat", "u%ebnaq %ast'", "studsovet", "buhgalteriq", "aktov|y zal", "sportzal", "medpunkt">>
InResidual(t, i) == Contains(ResidualTags[i], t)

\* C7: with a locative marker and no roster match, the library keyword gives exactly
\* (navigation, ["biblioteka"]), and in general the first matching location group in
\* the fixed order decides the tag; the token-carrying generic result is given only
\* when no group matches.
C7_LocationDisambiguation ==
    (Categorized /\ HasLocativeMarker(Lower(text)) /\ ~SomeSurnameInToken)
       => LET t == Lower(text) IN
          /\ result.category = "navigation"
          /\ InLibraryGroup(t) => result.entities = <<"biblioteka">>
          /\ (~InLibraryGroup(t) /\ InCanteenGroup(t)) => result.entities = <<"stolovaq">>
          /\ (~InLibraryGroup(t) /\ ~InCanteenGroup(t) /\ InLabGroup(t)) => result.entities = <<"laboratoriq">>
          /\ (~InLibraryGroup(t) /\ ~InCanteenGroup(t) /\ ~InLabGroup(t))
                => \A i \in 1..Len(ResidualTags) :
                      (InResidual(t, i) /\ \A j \in 1..(i - 1) : ~InResidual(t, j))
                         => result.entities = <<ResidualTags[i]>>

\* C7 witness: library and canteen both named after a locative marker, library wins
C7_Witness ==
    /\ Categorized
    /\ HasLocativeMarker(Lower(text))
    /\ InLibraryGroup(Lower(text)) /\ InCanteenGroup(Lower(text))
    /\ ~SomeSurnameInToken
    /\ teacher_surnames # <<>>
    /\ result = [raised |-> FALSE, category |-> "navigation", entities |-> <<"biblioteka">>]

\* the words of the query: the lowercased text, punctuation blanked, split at whitespace
QueryWords == Split(StripPunctuation(Lower(text)))

\* C4 as stated: a text of stop words and punctuation only, whatever the stop words,
\* is answered (unknown, []).
C4_Original ==
    (Categorized /\ \A k \in 1..Len(QueryWords) : QueryWords[k] \in stop_words)
       => (result.category = "unknown" /\ result.entities = <<>>)

\* what the reducer leaves of a word: the word itself where parse raises, else its normal form
FormOf(w) == IF w \in morph.failOn /\ morph.how = "raise" THEN w ELSE Parse(morph, w).value

\* C4 amended: a text made only of punctuation and of words whose reduced form is a stop
\* word is answered (unknown, []) when it does not contain the marker "gde", and
\* (navigation, []) when it does.
C4_StopWordsOnly ==
    (Categorized /\ \A k \in 1..Len(QueryWords) : FormOf(QueryWords[k]) \in stop_words)
       => /\ result.entities = <<>>
          /\ result.category = IF Contains("gde", Lower(text)) THEN "navigation" ELSE "unknown"

\* C4 witness: several stop words and a question mark, classified unknown with no entities
C4_Witness ==
    /\ Categorized
    /\ Len(QueryWords) >= 2
    /\ Contains("?", text)
    /\ \A k \in 1..Len(QueryWords) : FormOf(QueryWords[k]) \in stop_words
    /\ result = [raised |-> FALSE, category |-> "unknown", entities |-> <<>>]

\* f maps the positions of the sequence out, in increasing order, to positions of the words
IsOrderEmbedding(f, out) ==
    /\ \A i \in 1..Len(out) : out[i] = normalize_word(morph, QueryWords[f[i]])
    /\ \A i, j \in 1..Len(out) : i < j => f[i] < f[j]

\* C5: no keyword returned by extract_keywords is a stop word, and the keywords are the
\* reduced words of the text in the order of the text.
C5_StopWordElimination ==
    Extracted
       => /\ \A i \in 1..Len(keywords) : keywords[i] \notin stop_words
          /\ \E f \in [1..Len(keywords) -> 1..Len(QueryWords)] : IsOrderEmbedding(f, keywords)

\* C5 witness: a stop word is dropped between two keywords that are kept
C5_Witness ==
    /\ Extracted
    /\ Len(QueryWords) = 3
    /\ QueryWords[2] \in stop_words
    /\ Len(keywords) = 2
    /\ keywords[1] # keywords[2]

\* the positions of the words whose form is not a stop word
KeptPositions == {k \in 1..Len(QueryWords) : FormOf(QueryWords[k]) \notin stop_words}
NthKept(i) == CHOOSE k \in KeptPositions : Cardinality({j \in KeptPositions : j <= k}) = i

\* C10: when parse raises on some words of the text, extract_keywords returns, in word
\* order, one token for every word whose form is not a stop word: the raw lowercased
\* word where parse raised, the normal form elsewhere; nothing is dropped or aborted.
C10_PerWordReducerFailure ==
    (Extracted /\ morph.how = "raise" /\ \E k \in 1..Len(QueryWords) : QueryWords[k] \in morph.failOn)
       => /\ Len(keywords) = Cardinality(KeptPositions)
          /\ \A i \in 1..Len(keywords) : keywords[i] = FormOf(QueryWords[NthKept(i)])

\* C10 witness: parse raised on one word, another word was reduced, both are returned
C10_Witness ==
    /\ Extracted
    /\ morph.how = "raise"
    /\ keywords = <<"biblioteka", "ivanova">>
    /\ "ivanova" \in morph.failOn

\* the keywords of the lowercased text (without the groups of the teacher templates)
TextKeywords == extract_keywords(morph, Lower(text))

\* the discipline keywords contained in a token
CoursesIn(token) == {d \in categories["discipline"] : Contains(d, token)}
HasCourseToken == \E k \in 1..Len(TextKeywords) : CoursesIn(TextKeywords[k]) # {}
FirstCourseToken == TextKeywords[CHOOSE k \in 1..Len(TextKeywords) :
                                    /\ CoursesIn(TextKeywords[k]) # {}
                                    /\ \A j \in 1..(k - 1) : CoursesIn(TextKeywords[j]) = {}]

\* the lowercased text holds a teaching-action marker
TeachingMarkerInText == \E mk \in {"vedet", "ved^t", "prepodaet"} : Contains(mk, Lower(text))

\* C3 as stated: a teaching marker and a token matching a course name give
\* (discipline, [capitalized course name]) whatever else the text holds.
C3_Original ==
    (Categorized /\ TeachingMarkerInText /\ HasCourseToken)
       => /\ result.category = "discipline"
          /\ \E d \in CoursesIn(FirstCourseToken) : result.entities = <<Capitalize(d)>>

\* some token passes the name test of steps 4 and 5 (alphabetic, longer than 3, no
\* excluded word inside it)
LooksLikeName(token) ==
    /\ Len(token) > 3
    /\ IsAlpha(token)
    /\ ~\E c \in common_words : Contains(c, Lower(token))
HasRoleNoun == \E w \in {"prepodavatel'", "u%itel'", "pedagog"} : Contains(w, Lower(text))
NounStepMatches == HasRoleNoun /\ \E k \in 1..Len(QueryTokens) : LooksLikeName(QueryTokens[k])
CapitalizedStepMatches ==
    \E k \in 1..Len(QueryTokens) : LooksLikeName(QueryTokens[k]) /\ IsUpperChar(CharAt(QueryTokens[k], 1))

\* C3 amended: the teaching-context shortcut is the first test of the discipline step
\* (step 6): a teaching marker and a token containing a discipline keyword give
\* (discipline, [that keyword capitalized]) when no token contains a roster surname, the
\* text has no locative marker and neither name step (4, 5) matches; a roster match,
\* a locative marker or a role-noun match is answered first.
C3_TeachingShortcutAtDisciplineStep ==
    (Categorized /\ TeachingMarkerInText /\ HasCourseToken)
       => /\ (~SomeSurnameInToken /\ ~HasLocativeMarker(Lower(text)) /\ ~NounStepMatches /\ ~CapitalizedStepMatches)
                => /\ result.category = "discipline"
                   /\ \E d \in CoursesIn(FirstCourseToken) : result.entities = <<Capitalize(d)>>
          /\ SomeSurnameInToken => result.category = "teacher"
          /\ (~SomeSurnameInToken /\ HasLocativeMarker(Lower(text))) => result.category = "navigation"
          /\ (~SomeSurnameInToken /\ ~HasLocativeMarker(Lower(text)) /\ NounStepMatches)
                => result.category = "teacher"

\* C3 witness: the shortcut decides a query that no earlier step takes
C3_Witness ==
    /\ Categorized
    /\ TeachingMarkerInText
    /\ morph.lemmas
    /\ teacher_surnames # <<>>
    /\ result = [raised |-> FALSE, category |-> "discipline", entities |-> <<"Matematika">>]

\* str with every whitespace character removed
RECURSIVE RemoveWhitespace(_)
RemoveWhitespace(s) ==
    IF s = "" THEN ""
    ELSE (IF CharAt(s, 1) \in SpaceChars THEN "" ELSE CharAt(s, 1)) \o RemoveWhitespace(SubSeq(s, 2, Len(s)))

\* the text holds "mdk" in any letter case, optional whitespace and dd.dd
HasMdkCode == MdkSearch(text) # <<>>

\* C6: when no higher-priority step matches, a text with a discipline code is answered
\* (discipline, [code]), the code being the match uppercased with its inner whitespace
\* removed.
C6_DisciplineCodeRoundTrip ==
    (/\ Categorized
     /\ HasMdkCode
     /\ ~(TeachingMarkerInText /\ HasCourseToken)
     /\ ~SomeSurnameInToken
     /\ ~HasLocativeMarker(Lower(text))
     /\ ~HasRoleNoun
     /\ ~CapitalizedStepMatches)
       => /\ result.category = "discipline"
          /\ result.entities = <<RemoveWhitespace(Upper(MdkSearch(text)[1]))>>

AllKeywords == UNION {categories[c] : c \in DOMAIN categories}

\* one string is inside the other and the inner one is longer than 3 characters
SharesLongPart(token, word) ==
    \/ Contains(token, word) /\ Len(token) > 3
    \/ Contains(word, token) /\ Len(word) > 3
FuzzyCategoriesOf(tokens) ==
    {i \in 1..Len(CategoryOrder) :
       \E k \in 1..Len(tokens) : \E w \in categories[CategoryOrder[i]] : SharesLongPart(tokens[k], w)}

\* none of the steps 1-8 matches the query
StepsBeforeFuzzyFail ==
    LET tokens == QueryTokens IN
    /\ ~HasLocativeMarker(Lower(text))
    /\ \A k \in 1..Len(tokens) : tokens[k] \notin AllKeywords
    /\ ~\E w \in {"prepodavateli", "o prepodavatelqh", "spisok prepodavateley", "stolovaq", "bufet", "poest'"} :
          Contains(w, Lower(text))
    /\ ~SomeSurnameInToken
    /\ ~NounStepMatches
    /\ ~CapitalizedStepMatches
    /\ find_discipline_in_text(morph, Lower(text)) = {}

\* C8: when steps 1-8 do not match, the first category in enumeration order that has a
\* keyword sharing a part longer than 3 characters with a token is returned with the
\* tokens; when every containment is by a string of at most 3 characters the result is
\* (unknown, tokens).
C8_FuzzyCategoryMatch ==
    (Categorized /\ StepsBeforeFuzzyFail)
       => LET tokens == QueryTokens
              fuzzy == FuzzyCategoriesOf(tokens)
          IN  /\ result.entities = tokens
              /\ fuzzy # {}
                    => \E i \in fuzzy : (\A j \in fuzzy : i <= j) /\ result.category = CategoryOrder[i]
              /\ fuzzy = {} => result.category = "unknown"

\* C8 witness: the second token matches an earlier category than the first, the
\* earlier category is returned
C8_Witness ==
    /\ Categorized
    /\ text = "futbolist koncert|"
    /\ StepsBeforeFuzzyFail
    /\ result = [raised |-> FALSE, category |-> "event", entities |-> <<"futbolist", "koncert|">>]

ClosedCategorySet == {"teacher", "discipline", "document", "navigation", "event", "sport", "dormitory", "unknown"}

\* C1: every call of categorize_query returns, without raising, one pair whose category
\* is in the closed set; "unknown" is no key of the keyword tables and is returned only
\* as the fallback: with no entities after a fault, or with tokens none of which matches
\* a keyword table exactly or fuzzily.
C1_TotalClassification ==
    Categorized
       => /\ ~result.raised
          /\ result.category \in ClosedCategorySet
          /\ "unknown" \notin DOMAIN categories
          /\ result.category = "unknown"
                => \A k \in 1..Len(result.entities) : \A w \in AllKeywords :
                      result.entities[k] # w /\ ~SharesLongPart(result.entities[k], w)

\* C1 witness: parse raises on every word of a two-word query, the query is classified
C1_Witness ==
    /\ Categorized
    /\ IsStr(text)
    /\ Len(QueryWords) = 2
    /\ morph.how = "raise"
    /\ \A k \in 1..Len(QueryWords) : QueryWords[k] \in morph.failOn
    /\ result.category = "teacher"
    /\ teacher_surnames # <<>>

\* a fault inside extract_keywords: the reducer handed back an unhashable value
ExtractionFaults ==
    IsStr(text) /\ \E k \in 1..Len(QueryWords) : normalize_word(morph, QueryWords[k]) = ListValue
\* a fault in the chain itself: the query is no str, or a None keyword is reached by the
\* roster lookup (which lowercases it) or by a name scan (which takes its length) before
\* an earlier keyword or step has answered
ChainFaults ==
    \/ ~IsStr(text)
    \/ LET tokens == QueryTokens
           nones == {k \in 1..Len(tokens) : tokens[k] = NoneValue}
           firstNone == CHOOSE k \in nones : \A j \in nones : k <= j
           Before(P(_)) == \E k \in 1..(firstNone - 1) : P(tokens[k])
           HasSurname(t) == \E i \in 1..Len(teacher_surnames) : Contains(teacher_surnames[i].name_base, Lower(t))
           IsCapitalizedName(t) == LooksLikeName(t) /\ IsUpperChar(CharAt(t, 1))
       IN  /\ nones # {}
           /\ IF teacher_surnames # <<>> THEN ~Before(HasSurname)
              ELSE /\ ~HasLocativeMarker(Lower(text))
                   /\ IF HasRoleNoun THEN ~Before(LooksLikeName) ELSE ~Before(IsCapitalizedName)

\* no teacher template captures a group in the lowercased text
NoTemplateMatches == AppendPatternGroups(<<>>, Lower(text), 1) = <<>>

C11_ReducerAbsence ==
    morph = Unavailable
       => /\ pc # "construct_raised"
          /\ Extracted => keywords = extract_keywords(Identity, text)
          /\ Categorized => result \in categorize_query(Identity, teacher_surnames, text)

\* the roster call has been made
RosterBuilt == pc \in {"serving", "extracted", "categorized"}
RosterArgument == build.teachers_list.items
WellFormedRow(teacher) == teacher.tuple /\ Len(teacher.fields) >= 4
RowSurname(teacher) == Lower(IF teacher.fields[2] = NoneValue THEN "None" ELSE teacher.fields[2])
IndexKeys == {teacher_surnames[i].name_base : i \in 1..Len(teacher_surnames)}
KnownFullNames == {"Ivanov Ivan Ivanovi%", "Ivanova Anna Petrovna", "Sidorov Petr ", "Petrov   Petr None"}

\* C12: set_teacher_surnames never raises; the index holds exactly the surnames of the
\* well-formed records of the list, whatever malformed items stand before or between
\* them; after an empty or missing list the index is empty and no query is answered
\* with a roster name.
C12_RosterBuildRobustness ==
    RosterBuilt
       => /\ ~build.raised
          /\ IndexKeys = {RowSurname(RosterArgument[k]) :
                             k \in {j \in 1..Len(RosterArgument) : WellFormedRow(RosterArgument[j])}}
          /\ (build.teachers_list.kind # "list" \/ RosterArgument = <<>>)
                => /\ teacher_surnames = <<>>
                   /\ Categorized => ~(Len(result.entities) = 1 /\ result.entities[1] \in KnownFullNames)

\* C12 witness: a malformed item precedes a well-formed record, which is indexed and found
C12_Witness ==
    /\ Categorized
    /\ Len(RosterArgument) = 2
    /\ ~WellFormedRow(RosterArgument[1])
    /\ WellFormedRow(RosterArgument[2])
    /\ Len(teacher_surnames) = 1
    /\ result.category = "teacher"
    /\ result.entities = <<teacher_surnames[1].full_name>>

\* a string without leading, trailing or doubled blanks
SingleSpaced(str) ==
    /\ str # ""
    /\ CharAt(str, 1) # " "
    /\ CharAt(str, Len(str)) # " "
    /\ \A i \in 1..(Len(str) - 1) : ~(CharAt(str, i) = " " /\ CharAt(str, i + 1) = " ")

\* C13: every index key is the lowercased surname of a record and every value is
\* "surname given-name patronymic" joined by single blanks, without leading or
\* trailing whitespace, also for records with an empty or padded column.
C13_RosterEntryFormat ==
    RosterBuilt
       => \A i \in 1..Len(teacher_surnames) :
             /\ \E k \in 1..Len(RosterArgument) :
                   WellFormedRow(RosterArgument[k]) /\ teacher_surnames[i].name_base = RowSurname(RosterArgument[k])
             /\ SingleSpaced(teacher_surnames[i].full_name)

\* the well-formed records of the list whose lowercased surname the token contains
RowsInToken(token) ==
    {k \in 1..Len(RosterArgument) :
        WellFormedRow(RosterArgument[k]) /\ Contains(RowSurname(RosterArgument[k]), Lower(token))}
FullNameOf(surname) ==
    teacher_surnames[CHOOSE i \in 1..Len(teacher_surnames) : teacher_surnames[i].name_base = surname].full_name

\* C14: the first token, in token order, that contains the surname of some record decides;
\* containment is enough; of several surnames contained in that token the one whose
\* record came first in the list gives the returned name.
C14_RosterLookup ==
    (Categorized /\ build.teachers_list.kind = "list")
       => LET tokens == QueryTokens
              matching == {t \in 1..Len(tokens) : IsStr(tokens[t]) /\ RowsInToken(tokens[t]) # {}}
          IN  matching # {}
                 => LET t == CHOOSE a \in matching : \A b \in matching : a <= b
                        k == CHOOSE a \in RowsInToken(tokens[t]) : \A b \in RowsInToken(tokens[t]) : a <= b
                    IN  result = [raised |-> FALSE, category |-> "teacher",
                                  entities |-> <<FullNameOf(RowSurname(RosterArgument[k]))>>]

\* C14 witness: the first token holds a surname inserted second, a later token one inserted first
C14_Witness ==
    /\ Categorized
    /\ text = "Sidorovu Ivanova"
    /\ RosterArgument = <<Ivanova, Sidorov>>
    /\ result.entities = <<"Sidorov Petr ">>

\* a call of process_query has returned or raised
ProcessedQuery == pc = "answered"
IsCommand == text # NoneValue /\ Len(text) > 0 /\ SubSeq(text, 1, 1) = "/"

\* C15: a text that starts with "/" is answered None with no classification run, no
\* accessor of the data store called and no answer text; every other text is answered
\* with a non-empty string.
C15_CommandRejection ==
    ProcessedQuery
       => IF IsCommand
          THEN /\ ~reply.raised
               /\ reply.value = NoneValue
               /\ reply.calls = <<>>
               /\ result = [raised |-> FALSE, category |-> "", entities |-> <<>>]
          ELSE /\ ~reply.raised
               /\ reply.value # NoneValue
               /\ Len(reply.value) > 0

\* C15 witness: a command followed by words that would classify as navigation
C15_Witness ==
    /\ ProcessedQuery
    /\ text = "/start gde sportzal"
    /\ reply.value = NoneValue
    /\ reply.calls = <<>>

\* the accessor of the data store was called, and what the store did
StoreAccessed == reply.calls # <<>>
StoreFailed == db.how = "raise"
StoreEmpty == db.how = "None" \/ (db.how = "rows" /\ db.rows = <<>>)
FormatterFailed ==
    /\ db.how = "rows"
    /\ result.category \in {"sport", "document", "event", "dormitory"}
    /\ \E i \in 1..Len(db.rows) : ~db.rows[i].tuple
UnavailableText ==
    [c \in {"sport", "document", "navigation", "event", "dormitory"} |->
       CASE c = "sport" -> "informaciq o sportivn|h sekciqh vremenno nedostupna"
         [] c = "document" -> "informaciq o dokumentah vremenno nedostupna"
         [] c = "navigation" -> "informaciq o raspolojenii pomexeniy vremenno nedostupna"
         [] c = "event" -> "net zaplanirovann|h meropriqtiy"
         [] c = "dormitory" -> "informaciq ob obxejitiqh vremenno nedostupna"]

\* C20: process_query never raises; when the accessor or the formatter of the answer
\* fails the fixed generic error text is returned; when the accessor called for the
\* sport, document, navigation, event or dormitory category returns no rows, that
\* category's own unavailable message is returned.
C20_NoErrorSurfaces ==
    ProcessedQuery
       => /\ ~reply.raised
          /\ (StoreAccessed /\ (StoreFailed \/ FormatterFailed))
                => reply.value = "Proizowla owibka pri obrabotke zaprosa."
          /\ (StoreAccessed /\ StoreEmpty)
                => /\ result.category \in DOMAIN UnavailableText
                   /\ reply.value = UnavailableText[result.category]

\* C20 witness: the accessor raises while a sport query is answered
C20_Witness ==
    /\ ProcessedQuery
    /\ result.category = "sport"
    /\ StoreAccessed
    /\ StoreFailed
    /\ reply = [raised |-> FALSE, value |-> "Proizowla owibka pri obrabotke zaprosa.", calls |-> <<"get_sections">>]

\* the roster index as the start-up call of set_teacher_surnames left it
StartUpIndex ==
    LET items == build.teachers_list.items
        rows == {k \in 1..Len(items) : items[k].tuple /\ Len(items[k].fields) >= 4}
    IN  [i \in 1..Cardinality(rows) |->
           LET k == CHOOSE a \in rows : Cardinality({b \in rows : b < a}) = i - 1
           IN  [name_base |-> Lower(items[k].fields[2]),
                full_name |-> items[k].fields[2] \o " " \o items[k].fields[3] \o " " \o items[k].fields[4]]]

\* C16: classification writes no shared state: once the start-up call has built the
\* roster index it never changes, and whatever the interleaving of the threads, every
\* finished classification has a result the same query gets when classified alone.
C16_NoSharedMutableState ==
    pc = "serving"
       => /\ teacher_surnames = StartUpIndex
          /\ \A t \in Threads :
                calls[t].pc = "done"
                   => calls[t].result \in categorize_query(morph, StartUpIndex, calls[t].text)

\* C16 witness: both threads are inside classifications of different queries, one
\* past its roster lookup and one before it, and a third classification has finished
C16_Witness ==
    /\ calls[1].pc = "chain"
    /\ calls[2].pc = "lookup"
    /\ calls[1].text = "gde sportzal"
    /\ calls[2].text = "Ivanova"
    /\ teacher_surnames # <<>>

\* a call of split_long_message has returned
SplitDone == pc = "split"

\* C17: every chunk split_long_message returns has length at most max_length.
C17_BoundedChunks ==
    SplitDone => \A i \in 1..Len(split.parts) : Len(split.parts[i]) <= split.max_length

\* the lines of the split message and the newline-join of the run a..b of them
MessageLines == SplitLines(split.message)
RECURSIVE JoinRun(_, _, _)
JoinRun(lines, a, b) ==
    IF a > b THEN "" ELSE IF a = b THEN lines[a] ELSE lines[a] \o "\n" \o JoinRun(lines, a + 1, b)

\* the chunks from the i-th on are joins of runs of complete lines that start at line
\* p or later and follow one another (an empty chunk holds no line)
RECURSIVE ChunksAreLineRuns(_, _)
ChunksAreLineRuns(i, p) ==
    \/ i > Len(split.parts)
    \/ \E a \in p..(Len(MessageLines) + 1) : \E b \in (a - 1)..Len(MessageLines) :
          /\ JoinRun(MessageLines, a, b) = split.parts[i]
          /\ ChunksAreLineRuns(i + 1, b + 1)

\* C18: for a message longer than max_length every chunk is the newline-join of a
\* contiguous run of complete lines, the runs follow the order of the message, and
\* no line is divided between two chunks.
C18_LineBoundarySplitting ==
    (SplitDone /\ Len(split.message) > split.max_length) => ChunksAreLineRuns(1, 1)

\* C18 witness: two lines share the first chunk and the third line starts the next one
C18_Witness ==
    /\ SplitDone
    /\ split.message = "a\na\naa"
    /\ split.max_length = 3
    /\ split.parts = <<"a\na", "aa">>

\* C19: extract_keywords run on the blank-joined output of extract_keywords returns
\* the token sequence of the first run.
C19_NormalizationIdempotent ==
    pc = "re_extracted" => rerun = keywords

\* the last text message was answered by process_query
AnsweredByNlp == pc = "serving" /\ \E u \in Users : users[u].handled.nlp /\ users[u].handled.text = text

\* the words of the message as the user wrote it (punctuation blanked, split at
\* whitespace) that are alphabetic, longer than 3 characters, start with an uppercase
\* letter and hold no excluded word
CapitalizedNames ==
    LET words == Split(StripPunctuation(text))
    IN  {words[k] : k \in {i \in 1..Len(words) :
                              /\ Len(words[i]) > 3
                              /\ IsAlpha(words[i])
                              /\ IsUpperChar(CharAt(words[i], 1))
                              /\ ~\E c \in common_words : Contains(c, Lower(words[i]))}}

\* C21: a message that steps 1-4 do not take and that holds a capitalized alphabetic
\* word longer than 3 characters, not an excluded word, is classified (teacher, [that
\* word]) - the word as written, lowercased or reduced.
C21_CapitalizedSurnameFallback ==
    (/\ AnsweredByNlp
     /\ ~(TeachingMarkerInText /\ HasCourseToken)
     /\ ~SomeSurnameInToken
     /\ ~HasLocativeMarker(Lower(text))
     /\ ~NounStepMatches
     /\ CapitalizedNames # {})
       => /\ result.category = "teacher"
          /\ \E w \in CapitalizedNames :
                result.entities \in {<<w>>, <<Lower(w)>>, <<normalize_word(morph, Lower(w))>>}

\* the first token, in token order, that satisfies a test: <<token>>, or <<>> without one
FirstToken(Test(_)) ==
    LET hits == {k \in 1..Len(QueryTokens) : Test(QueryTokens[k])}
    IN  IF hits = {} THEN <<>> ELSE <<QueryTokens[CHOOSE k \in hits : \A j \in hits : k <= j]>>

\* alphabetic, longer than 3 characters and not equal to an excluded word
NotAnExcludedWord(token) == Len(token) > 3 /\ IsAlpha(token) /\ Lower(token) \notin common_words

\* the results the steps after the capitalized-surname fallback can give
AfterNameSteps ==
    LET labels == find_discipline_in_text(morph, Lower(text))
        phrase == PhraseStep(Lower(text), QueryTokens)
        exact == ExactStep(QueryTokens)
        fuzzy == FuzzyStep(QueryTokens)
    IN  IF labels # {} THEN {CatchAll(Return("discipline", <<l>>)) : l \in labels}
        ELSE IF phrase.kind # "none" THEN {CatchAll(phrase)}
        ELSE IF exact.kind # "none" THEN {CatchAll(exact)}
        ELSE IF fuzzy.kind # "none" THEN {CatchAll(fuzzy)}
        ELSE {CatchAll(Return("unknown", QueryTokens))}

\* C22 as stated: with a role noun in the text and steps 1-3 not matching, the result is
\* (teacher, [t]) for the first token t that is alphabetic, longer than 3 characters
\* and not equal to an excluded word, a token that only contains an excluded word
\* being eligible.
C22_Original ==
    (/\ Categorized
     /\ HasRoleNoun
     /\ ~(TeachingMarkerInText /\ HasCourseToken)
     /\ ~SomeSurnameInToken
     /\ ~HasLocativeMarker(Lower(text))
     /\ FirstToken(NotAnExcludedWord) # <<>>)
       => result = [raised |-> FALSE, category |-> "teacher", entities |-> FirstToken(NotAnExcludedWord)]

\* C22 amended: with a role noun in the text, no roster surname in a token and no
\* locative marker, the result is (teacher, [t]) for the first token t, in token order,
\* that is alphabetic, longer than 3 characters and contains none of the excluded words
\* (gde, kak, %to, kogda, po%emu, kto, nahodit'sq, raspolojen); a token that contains
\* one of them, also as a proper substring, is skipped; when no token qualifies the
\* chain continues with step 5 and the steps after it.
C22_TeacherMentionHeuristic ==
    (Categorized /\ HasRoleNoun /\ ~SomeSurnameInToken /\ ~HasLocativeMarker(Lower(text)))
       => /\ FirstToken(LooksLikeName) # <<>>
                => result = [raised |-> FALSE, category |-> "teacher", entities |-> FirstToken(LooksLikeName)]
          /\ FirstToken(LooksLikeName) = <<>>
                => /\ CapitalizedStepMatches => result.category = "teacher"
                   /\ ~CapitalizedStepMatches => result \in AfterNameSteps

\* C22 witness: the token before the role noun holds "kak" inside it and is skipped,
\* the role noun itself is the first token that qualifies
C22_Witness ==
    /\ Categorized
    /\ text = "kaktusov prepodavatel'"
    /\ FirstToken(NotAnExcludedWord) = <<"kaktusov">>
    /\ result = [raised |-> FALSE, category |-> "teacher", entities |-> <<"prepodavatel'">>]

\* the group of the first template, in template order, that matches the lowercased
\* text: <<group>>, or <<>> when no template matches
FirstTemplateGroup ==
    LET hits == {k \in 1..Len(teacher_patterns) : PatternGroup(teacher_patterns[k], Lower(text)) # <<>>}
    IN  IF hits = {} THEN <<>>
        ELSE PatternGroup(teacher_patterns[CHOOSE k \in hits : \A j \in hits : k <= j], Lower(text))

\* the results the decision chain gives for a token list
ResultsFor(tokens) ==
    LET roster == RosterStep(tokens, teacher_surnames)
    IN  {CatchAll(o) : o \in IF roster.kind # "none" THEN {roster}
                              ELSE ChainAfterRoster(morph, Lower(text), tokens)}

\* C23: the classification is the one of the normalized tokens followed by at most one
\* extra token, the group of the first template that matches the lowercased text;
\* later templates contribute nothing, and the appended token is seen by the roster
\* lookup and returned with the token list.
C23_TeacherPhraseExtractor ==
    (Categorized /\ IsStr(text)) => result \in ResultsFor(TextKeywords \o FirstTemplateGroup)

\* the fixed order of the categories
EnumerationOrder == <<"teacher", "discipline", "document", "navigation", "event", "sport", "dormitory">>

\* the positions, in that order, of the categories whose keyword set holds a token
ExactCategoriesOf(tokens) ==
    {i \in 1..Len(EnumerationOrder) : \E k \in 1..Len(tokens) : tokens[k] \in categories[EnumerationOrder[i]]}

\* none of the steps 1-7 matches the query
StepsBeforeExactFail ==
    /\ ~SomeSurnameInToken
    /\ ~HasLocativeMarker(Lower(text))
    /\ ~NounStepMatches
    /\ ~CapitalizedStepMatches
    /\ find_discipline_in_text(morph, Lower(text)) = {}
    /\ ~\E w \in {"prepodavateli", "o prepodavatelqh", "spisok prepodavateley", "stolovaq", "bufet", "poest'"} :
          Contains(w, Lower(text))

\* C24: when steps 1-7 do not match and some token is an exact member of a keyword set,
\* the result is the first category, in the order teacher, discipline, document,
\* navigation, event, sport, dormitory, whose set holds a token, whatever the order of
\* the tokens and whatever earlier category a token matches only fuzzily; the entities
\* are the full token list.
C24_ExactKeywordIntersection ==
    (Categorized /\ StepsBeforeExactFail /\ ExactCategoriesOf(QueryTokens) # {})
       => /\ \E i \in ExactCategoriesOf(QueryTokens) :
                /\ \A j \in ExactCategoriesOf(QueryTokens) : i <= j
                /\ result.category = EnumerationOrder[i]
          /\ result.entities = QueryTokens

\* C24 witness: the second token is in a later set than the third, and the first token
\* matches an earlier set only fuzzily; the earliest set with an exact member is returned
C24_Witness ==
    /\ Categorized
    /\ text = "kurs| sport koncert"
    /\ StepsBeforeExactFail
    /\ 2 \in FuzzyCategoriesOf(QueryTokens)
    /\ ExactCategoriesOf(QueryTokens) = {5, 6}
    /\ result = [raised |-> FALSE, category |-> "event", entities |-> <<"kurs|", "sport", "koncert">>]

\* the discipline keywords a token is contained in
CoursesAround(token) == {d \in categories["discipline"] : Contains(token, d)}
HasTokenInCourse == \E k \in 1..Len(TextKeywords) : CoursesAround(TextKeywords[k]) # {}
FirstTokenInCourse == TextKeywords[CHOOSE k \in 1..Len(TextKeywords) :
                                      /\ CoursesAround(TextKeywords[k]) # {}
                                      /\ \A j \in 1..(k - 1) : CoursesAround(TextKeywords[j]) = {}]

\* the steps that precede the discipline step do not match
StepsBeforeDisciplineFail ==
    /\ ~SomeSurnameInToken
    /\ ~HasLocativeMarker(Lower(text))
    /\ ~NounStepMatches
    /\ ~CapitalizedStepMatches

\* the results of a query the teaching-context shortcut does not take: discipline code,
\* common-discipline list, then the later steps
ResultsWithoutShortcut ==
    LET t == Lower(text)
        mdk == MdkSearch(t)
        full == {i \in 1..Len(common_disciplines) : Contains(common_disciplines[i], t)}
        partial == PartialDiscipline(TextKeywords)
        phrase == PhraseStep(t, QueryTokens)
        exact == ExactStep(QueryTokens)
        fuzzy == FuzzyStep(QueryTokens)
    IN  IF mdk # <<>> THEN {CatchAll(Return("discipline", <<FormatMdk(mdk[1])>>))}
        ELSE IF full # {}
             THEN {CatchAll(Return("discipline",
                                   <<Capitalize(common_disciplines[CHOOSE i \in full : \A j \in full : i <= j])>>))}
        ELSE IF partial.kind = "return" THEN {CatchAll(Return("discipline", <<l>>)) : l \in partial.labels}
        ELSE IF phrase.kind # "none" THEN {CatchAll(phrase)}
        ELSE IF exact.kind # "none" THEN {CatchAll(exact)}
        ELSE IF fuzzy.kind # "none" THEN {CatchAll(fuzzy)}
        ELSE {CatchAll(Return("unknown", QueryTokens))}

\* C25 as stated: with a teaching marker in the text (and no earlier step matching) the
\* shortcut fires exactly when a token is contained in a discipline keyword, the label
\* being that keyword capitalized; a token contained in no keyword never triggers it.
C25_Original ==
    (Categorized /\ IsStr(text) /\ TeachingMarkerInText /\ StepsBeforeDisciplineFail)
       => /\ HasTokenInCourse
                => /\ result.category = "discipline"
                   /\ \E d \in CoursesAround(FirstTokenInCourse) : result.entities = <<Capitalize(d)>>
          /\ ~HasTokenInCourse => result \in ResultsWithoutShortcut

\* C25 amended: with a teaching marker in the text and no earlier step matching, the
\* shortcut fires exactly when a token contains a discipline keyword as a substring;
\* the label is a keyword the first such token contains, capitalized; a token that
\* contains no keyword never triggers the shortcut, also when it is itself contained
\* in a keyword.
C25_TeachingMatchDirection ==
    (Categorized /\ IsStr(text) /\ TeachingMarkerInText /\ StepsBeforeDisciplineFail)
       => /\ HasCourseToken
                => /\ result.category = "discipline"
                   /\ \E d \in CoursesIn(FirstCourseToken) : result.entities = <<Capitalize(d)>>
          /\ ~HasCourseToken => result \in ResultsWithoutShortcut

\* C25 witness: the token contains the keyword "kurs" and is contained in no keyword;
\* the shortcut fires with the keyword as label
C25_Witness ==
    /\ Categorized
    /\ text = "ved^t kurs|"
    /\ CoursesAround("kurs|") = {}
    /\ CoursesIn("kurs|") = {"kurs"}
    /\ StepsBeforeDisciplineFail
    /\ result = [raised |-> FALSE, category |-> "discipline", entities |-> <<"Kurs">>]

\* the description that belongs to each location tag, by its headline (the dean's
\* office is described together with the study office)
TagDescription ==
    [tag \in {"biblioteka", "stolovaq", "laboratoriq", "dekanat", "u%ebnaq %ast'", "studsovet", "buhgalteriq",
               "aktov|y zal", "sportzal", "medpunkt"} |->
       CASE tag = "biblioteka" -> "Biblioteka kolledja"
         [] tag = "stolovaq" -> "Stolovaq i bufet kolledja"
         [] tag = "laboratoriq" -> "&$-laboratoriq"
         [] tag \in {"dekanat", "u%ebnaq %ast'"} -> "U%ebnaq %ast' kolledja"
         [] tag = "studsovet" -> "Studen%eskiy sovet kolledja"
         [] tag = "buhgalteriq" -> "Buhgalteriq kolledja"
         [] tag = "aktov|y zal" -> "Aktov|y zal kolledja"
         [] tag = "sportzal" -> "Sportivn|y zal kolledja"
         [] tag = "medpunkt" -> "Medicinskiy punkt kolledja"]

\* C26: when the explicit-navigation step returns a location tag and the navigation
\* table is not empty, process_query answers with the description of that location.
C26_LocationAgreement ==
    (/\ ProcessedQuery
     /\ result.category = "navigation"
     /\ Len(result.entities) = 1
     /\ result.entities[1] \in DOMAIN TagDescription
     /\ db.how = "rows" /\ db.rows # <<>>)
       => reply = [raised |-> FALSE, value |-> TagDescription[result.entities[1]], calls |-> <<"get_navigation">>]

\* C27: joining the chunks split_long_message returns with a line break reproduces
\* the message exactly; no line is dropped or duplicated.
C27_LosslessSplitting ==
    SplitDone => JoinRun(split.parts, 1, Len(split.parts)) = split.message

\* C28: for a non-empty message and max_length >= 1, split_long_message returns at
\* least one chunk and no chunk is the empty string.
C28_NoEmptyChunk ==
    (SplitDone /\ split.message # "" /\ split.max_length >= 1)
       => /\ split.parts # <<>>
          /\ \A i \in 1..Len(split.parts) : split.parts[i] # ""

\* the last text message of a user was handled as a teacher-surname search
SearchedBySurname(u) ==
    users[u].handled.by # <<>> /\ users[u].handled.by[1] = "process_teacher_search_query"

\* C29: a text message of a user is handled as a teacher-surname search if and only
\* if the user's state is 'waiting_for_teacher_name' when the message arrives; a text
\* that arrives in another state and is no command goes to the NLP classification.
C29_TeacherSearchMode ==
    \A u \in Users :
       users[u].handled # NotHandled
          => /\ SearchedBySurname(u) <=> users[u].handled.state = WaitingForTeacherName
             /\ (users[u].handled.state # WaitingForTeacherName /\ ~IsCommandMessage(users[u].handled.text))
                   => users[u].handled.nlp

\* a call of execute_query has just returned
QueryServed == served.call = "execute_query"
\* the query is a SELECT without parameters issued with use_cache=True
ParameterlessSelect ==
    /\ served.use_cache
    /\ served.params = <<>>
    /\ \E k \in 0..Len(served.query) : Lower(SubSeq(served.query, k + 1, k + 6)) = "select"
                                        /\ \A i \in 1..k : CharAt(served.query, i) = " "
\* the entries of the query in the cache before the call that are younger than
\* cache_timeout at the time of the call
YoungEntries ==
    {e \in served.before : e.query = served.query /\ served.time - e.timestamp < 300}
\* an invalidation flag younger than 60 s exists at the time of the call
YoungFlag == served.flag.kind = "time" /\ served.time - served.flag.time < 60
\* the result is what the database holds at the time of the call
CurrentResult ==
    served.result = (IF served.query = DeleteNews THEN <<>> ELSE <<served.query, tables>>)

\* C30: execute_query returns a cached result only for a parameterless SELECT issued
\* with use_cache=True whose entry is younger than cache_timeout while no invalidation
\* flag younger than 60 s exists, and else the current result; a query with parameters
\* or use_cache=False leaves the cache as it was; a query that fails returns [] and
\* leaves the cache as it was; clear_cache empties the cache.
C30_QueryCacheFreshness ==
    /\ QueryServed =>
          /\ (served.from_cache \/ ~(served.failed \/ CurrentResult))
                => /\ ParameterlessSelect
                   /\ ~YoungFlag
                   /\ \E e \in YoungEntries : served.result = e.result
          /\ (served.params # <<>> \/ ~served.use_cache)
                => /\ ~served.from_cache
                   /\ query_cache = served.before
          /\ served.failed => (served.result = <<>> /\ query_cache = served.before)
    /\ served.call = "clear_cache" => query_cache = {}

\* C30 witness: an entry 299 s old is returned although the data have changed since,
\* with a flag file that is 60 s old or more
C30_Witness ==
    /\ QueryServed
    /\ served.from_cache
    /\ served.query = SelectNews
    /\ served.result = <<SelectNews, FirstRows>>
    /\ tables = ChangedRows
    /\ served.time = 300
    /\ served.flag.kind = "time"
    /\ \E e \in served.before : e.query = SelectNews /\ e.timestamp = 1
====
